---- MODULE Spec2Model ----
(***************************************************************************)
(* Model of the incremental synchronisation and publish engine of          *)
(* obsidian-ibooks-notes-sync: runSync (src/src/lib/sync.ts), the State    *)
(* Store and the lock (src/src/lib/sync-state.ts) and the output path      *)
(* allocator (book-file-name).                                             *)
(*                                                                         *)
(* The output root is the record fs: live files, temporary files, live     *)
(* side-asset directories, backup directories and staging directories.     *)
(* Each run of runSync is a process r whose position is run[r].pc; every   *)
(* filesystem call of the code is one step, and a step that can throw has  *)
(* a failing outcome that is drawn while the fault budget lasts.           *)
(***************************************************************************)
EXTENDS Integers, Sequences, FiniteSets, TLC

\* ---------------------------------------------------------------- bounds
NumBooks == 2
NumRuns == 2
MaxFaults == 1
MaxHandlerFaults == 1
MaxEnv == 1
MaxReleaseCalls == 2
NumAllocBooks == 3

Ids == 1..NumBooks
Runs == 1..NumRuns

\* null of a nullable path (bookFileRelativePath, pdfAssetDirRelativePath)
Null == <<>>

\* ------------------------------------------------------- path-utils.ts
ForbiddenChars == {"<", ">", ":", "\"", "/", "\\", "|", "?", "*"}

ReplaceForbidden(s) == [k \in 1..Len(s) |-> IF s[k] \in ForbiddenChars THEN "_" ELSE s[k]]

RECURSIVE CollapseSpaces(_)
CollapseSpaces(s) ==
  IF Len(s) < 2 THEN s
  ELSE IF s[1] = " " /\ s[2] = " " THEN CollapseSpaces(Tail(s))
  ELSE <<s[1]>> \o CollapseSpaces(Tail(s))

RECURSIVE TrimLeft(_)
TrimLeft(s) == IF Len(s) > 0 /\ s[1] = " " THEN TrimLeft(Tail(s)) ELSE s

RECURSIVE TrimRight(_)
TrimRight(s) ==
  IF Len(s) > 0 /\ s[Len(s)] = " " THEN TrimRight(SubSeq(s, 1, Len(s) - 1)) ELSE s

Untitled == <<"u", "n", "t", "i", "t", "l", "e", "d">>

sanitizeFileName(input) ==
  LET sanitized == TrimRight(TrimLeft(CollapseSpaces(ReplaceForbidden(input))))
  IN  IF Len(sanitized) > 0 THEN sanitized ELSE Untitled

\* ----------------------------------------------------- book-file-name.ts
SHORT_BOOK_FILE_STEM_MAX_LENGTH == 40

Slice(s, n) == SubSeq(s, 1, IF Len(s) < n THEN Len(s) ELSE n)

toShortBookFileStem(title) ==
  LET cut == Slice(sanitizeFileName(title), SHORT_BOOK_FILE_STEM_MAX_LENGTH)
  IN  IF Len(cut) > 0 THEN cut ELSE Untitled

\* (mutant) the suffix is the 0-based position
BookFileName_ZeroBased(stem, index) ==
  stem \o (IF index = 0 THEN <<>> ELSE <<"_", ToString(index)>>) \o <<".md">>

\* `${stem}${suffix}.md` under booksDirName; index is the 0-based position
\* of the book in its stem group
BookFileName(stem, index) ==
  stem \o (IF index = 0 THEN <<>> ELSE <<"_", ToString(index + 1)>>) \o <<".md">>

BookPath(stem, index) == <<"books/">> \o BookFileName(stem, index)

\* path.posix.basename(p, ".md") of a path built by BookPath
Basename(p) == SubSeq(p, 2, Len(p) - 1)

\* bs: the books (allBooks), has: id -> BOOLEAN (hasOutputByAssetId).
\* A book without output maps to null and joins no group; a group is sorted
\* by assetId and the position in it gives the suffix.
buildBookFileRelativePathByAssetId(bs, has) ==
  [i \in DOMAIN bs |->
     IF ~has[i] THEN Null
     ELSE LET stem == toShortBookFileStem(bs[i].title)
              before == {j \in DOMAIN bs :
                           /\ has[j]
                           /\ toShortBookFileStem(bs[j].title) = stem
                           /\ j < i}
          IN  BookPath(stem, Cardinality(before))]

\* The same function on the list it is given. list: the books in the order of
\* the caller, each with its assetId and title; has: the flags of some of the
\* ids.
\* hasOutputByAssetId.get(id) ?? false
HasOutput(has, id) == IF id \in DOMAIN has THEN has[id] ELSE FALSE

\* (mutant) a book without output is pushed to the group of its stem as well
Group_All(list, has, stem) ==
  SelectSeq(list, LAMBDA b : toShortBookFileStem(b.title) = stem)

\* groups.get(stem) after the first loop: the books of the stem that have
\* output, in the order of the list
Group(list, has, stem) ==
  SelectSeq(list, LAMBDA b : /\ HasOutput(has, b.assetId)
                             /\ toShortBookFileStem(b.title) = stem)

\* (mutant) the group is left in the order of the list
SortByAssetId_Unsorted(group) == group

\* group.sort((left, right) => left.assetId.localeCompare(right.assetId)):
\* a stable sort on the ids
RECURSIVE SortByAssetId(_)
SortByAssetId(group) ==
  IF group = <<>> THEN <<>>
  ELSE LET k == CHOOSE x \in 1..Len(group) :
                  /\ \A y \in 1..Len(group) : group[x].assetId <= group[y].assetId
                  /\ \A y \in 1..(x - 1) : group[y].assetId # group[x].assetId
           rest == [x \in 1..(Len(group) - 1) |->
                      IF x < k THEN group[x] ELSE group[x + 1]]
       IN  <<group[k]>> \o SortByAssetId(rest)

\* the index group.entries() gives the book of the id
IndexIn(group, id) ==
  (CHOOSE k \in 1..Len(group) : group[k].assetId = id) - 1

buildBookFileRelativePathByAssetIdOfList(list, has) ==
  [i \in {list[k].assetId : k \in 1..Len(list)} |->
     IF ~HasOutput(has, i) THEN Null
     ELSE LET book == list[CHOOSE k \in 1..Len(list) : list[k].assetId = i]
              stem == toShortBookFileStem(book.title)
              group == SortByAssetId(Group(list, has, stem))
          IN  BookPath(stem, IndexIn(group, i))]

PdfAssetDirPath(i) == <<"assets/pdf/", ToString(i)>>

\* ---------------------------------------------------------- sync-state.ts
\* a modification time is a natural number; NoMod is the null of "no annotation"
NoMod == 0 - 1

toHashNumber(value) == IF value = NoMod THEN "null" ELSE ToString(value)

\* what getPdfFileStamp returns: null (no path), "missing" (stat failed), or
\* the file's mtimeMs and size
NullStamp == [kind |-> "null"]
MissingStamp == [kind |-> "missing"]
FileStamp(m, s) == [kind |-> "file", mtimeMs |-> m, size |-> s]

\* Math.trunc(mtimeMs) of a stamp whose mtimeMs is kept in tenths of a ms
Trunc(tenths) == tenths \div 10

\* (mutant) a missing file is stamped like an empty file of time zero
toPdfStamp_MissingAsZero(stamp) ==
  IF stamp.kind = "missing" THEN "0:0"
  ELSE IF stamp.kind = "null" THEN "null"
  ELSE ToString(Trunc(stamp.mtimeMs)) \o ":" \o ToString(stamp.size)

toPdfStamp(stamp) ==
  IF stamp.kind = "missing" THEN "missing"
  ELSE IF stamp.kind = "null" THEN "null"
  ELSE ToString(Trunc(stamp.mtimeMs)) \o ":" \o ToString(stamp.size)

\* (mutant) the file stamp is part of the hash of every kind
buildBookSyncHash_AlwaysStamp(format, mod, stamp) ==
  format \o "|mod:" \o toHashNumber(mod) \o "|file:" \o toPdfStamp(stamp)

buildBookSyncHash(format, mod, stamp) ==
  LET base == format \o "|mod:" \o toHashNumber(mod)
  IN  IF format = "PDF" THEN base \o "|file:" \o toPdfStamp(stamp) ELSE base

\* ------------------------------------------------------------ map helpers
Put(f, k, v) == [x \in DOMAIN f \cup {k} |-> IF x = k THEN v ELSE f[x]]
\* (mutant) delete nextStateAssets[id] is left out
Del_Keep(f, k) == f
\* delete nextStateAssets[id]
Del(f, k) == [x \in DOMAIN f \ {k} |-> f[x]]
EmptyMap == <<>>

Min(S) == CHOOSE x \in S : \A y \in S : x <= y

RECURSIVE SortedSeq(_)
SortedSeq(S) == IF S = {} THEN <<>> ELSE <<Min(S)>> \o SortedSeq(S \ {Min(S)})

\* the value normalizeStateAsset returns for an entry it rejects
Rejected == [rejected |-> TRUE]

\* one entry of the parsed state file: rejected when it is no object (JSON
\* null stands for these), and rejected unless the format is a
\* syncable one and bookFileRelativePath is a string (JSON null is not one);
\* a pdfAssetDirRelativePath that is not a string becomes null
normalizeStateAsset(assetId, value) ==
  IF value = Null THEN Rejected
  ELSE IF value.format \notin {"EPUB", "PDF"} THEN Rejected
  ELSE IF value.bookFileRelativePath = Null THEN Rejected
  ELSE [assetId |-> assetId,
        title |-> value.title,
        format |-> value.format,
        hash |-> value.hash,
        bookFileRelativePath |-> value.bookFileRelativePath,
        pdfAssetDirRelativePath |-> value.pdfAssetDirRelativePath]

\* ------------------------------------------------------------ the sources
\* A book (types.ts Book, as the data layer reports it to one run):
\*   present  it is a row of readBooks
\*   format   "EPUB" or "PDF" (isSyncableBook keeps only these)
\*   title    a sequence of characters
\*   author   the author the library holds for it
\*   mod      readAnnotationMaxModificationDates of it, or NoMod
\*   out      EPUB: readEpubRenderableCounts > 0, and then readEpubAnnotations
\*            is not empty; PDF: readPdfFallbackCounts > 0
\*   pages    PDF: pdfBetaEnabled, the book has a path and
\*            extractPdfPageAnnotations returns at least one page
\*   stamp    PDF: what getPdfFileStamp probes
Titles == {<<"A">>, <<"B">>}

PdfStamp == FileStamp(10009, 20)

\* the books a run can meet: the odd ids are EPUBs and the even ids PDFs, the
\* first book is titled A, and a page list needs a PDF with annotations
BookChoices(i) ==
  {[present |-> TRUE, format |-> f, title |-> t, author |-> "x",
    mod |-> 0, out |-> o, pages |-> p,
    stamp |-> IF f = "PDF" THEN PdfStamp ELSE NullStamp] :
     f \in {IF i % 2 = 1 THEN "EPUB" ELSE "PDF"},
     t \in IF i = 1 THEN {<<"A">>} ELSE Titles,
     o \in BOOLEAN,
     p \in IF i % 2 = 1 THEN {FALSE} ELSE BOOLEAN}

Catalogues ==
  {c \in [Ids -> UNION {BookChoices(i) : i \in Ids}] :
     \A i \in Ids : c[i] \in BookChoices(i) /\ (c[i].pages => c[i].out)}

\* ------------------------------------------------------- file contents
NoFile == [kind |-> "none"]
Partial == [kind |-> "partial"]
NoDir == NoFile

\* renderEpubBookMarkdown / renderPdfBookMarkdown of book i: the frontmatter
\* holds the title and the author, the body the annotations
RenderDoc(i, b) ==
  [kind |-> "doc", id |-> i, title |-> b.title, author |-> b.author,
   mod |-> b.mod, legacy |-> FALSE]

\* the page images generatePdfPages renders for book i
RenderPages(i, b) == [kind |-> "dir", id |-> i, mod |-> b.mod]

\* renderIndexMarkdown: the documents of the entries that have one
RenderIndex(assets) ==
  [kind |-> "index",
   paths |-> [i \in {j \in DOMAIN assets : assets[j].bookFileRelativePath # Null} |->
                assets[i].bookFileRelativePath]]

\* JSON.stringify of {version, updatedAt, assets}
StateJson(assets) == [kind |-> "state", assets |-> assets]

\* a state file that JSON.parse rejects, and one that parses to no object
Unparseable == [kind |-> "garbage"]
ScalarJson == [kind |-> "scalar"]

LockText(r, written) == [kind |-> "lock", pid |-> r, written |-> written]

IndexPath == <<"index.md">>
StatePath == <<".sync-state.json">>
LockPath == <<".sync.lock">>

DocPaths == {BookPath(toShortBookFileStem(t), k) : t \in Titles, k \in 0..(NumBooks - 1)}
LivePaths == DocPaths \cup {IndexPath, StatePath, LockPath}

VARIABLES
  books,   \* the source records, as the data layer reports them
  fs,      \* the output root
  run,     \* the runs of runSync
  faults,  \* how many filesystem calls have thrown or runs were killed
  env,     \* how many times the sources or the tree changed outside a run
  calls    \* the results of the calls of the library functions made outside a
           \* run, as the unit tests make them (none while runs are explored)

vars == <<books, fs, run, faults, env, calls>>

EmptyFs ==
  [files |-> [p \in LivePaths |-> NoFile],
   tmp |-> [r \in Runs |-> [p \in LivePaths |-> NoFile]],
   dirs |-> [i \in Ids |-> NoDir],
   bak |-> [r \in Runs |-> [i \in Ids |-> NoDir]],
   staged |-> [r \in Runs |-> [i \in Ids |-> NoDir]],
   stagingRoot |-> [r \in Runs |-> FALSE]]

ZeroStats == [totalBooks |-> 0, successBooks |-> 0, failedBooks |-> 0,
              skippedBooks |-> 0, generatedFiles |-> 0]

IdleRun ==
  [pc |-> "idle", dryRun |-> FALSE, full |-> TRUE, match |-> {}, seq |-> FALSE,
   prev |-> EmptyMap, next |-> EmptyMap, snap |-> EmptyMap,
   changed |-> <<>>, idx |-> 1, removed |-> <<>>, ridx |-> 1,
   stats |-> ZeroStats, errors |-> <<>>, lock |-> "none", err |-> "", errAt |-> "",
   nextPath |-> Null, nextDir |-> Null, imgs |-> 0,
   hadTarget |-> FALSE, preDir |-> NoDir, preDoc |-> NoFile,
   relCalls |-> 0, stWrites |-> 0, phases |-> {}]

Init ==
  /\ books \in Catalogues
  /\ fs = EmptyFs
  /\ run = [r \in Runs |-> IdleRun]
  /\ faults = 0
  /\ env = 0
  /\ calls = EmptyMap

Terminal == {"done", "threw", "killed"}
Active(r) == run[r].pc \notin ({"idle"} \cup Terminal)

\* the outcomes of a call that can throw: TRUE it returns, FALSE it throws
Outcomes == IF faults < MaxFaults THEN {TRUE, FALSE} ELSE {TRUE}
Charge(ok) == faults' = IF ok THEN faults ELSE faults + 1

\* the outcomes of a call made inside a catch block, after the call that threw:
\* what made that call fail can make the handler's call fail too
HandlerOutcomes ==
  IF faults < MaxFaults + MaxHandlerFaults THEN {TRUE, FALSE} ELSE {TRUE}

pathExists(files, p) == files[p].kind # "none"

\* ------------------------------------------------------------- planning
\* readBooks(...).filter(isSyncableBook)
AllBooks == {i \in Ids : books[i].present}

\* the option --book, as the set of books its keyword matches: no keyword, or
\* a keyword that matches the last book alone
Filters ==
  {[full |-> TRUE, match |-> Ids], [full |-> FALSE, match |-> {NumBooks}]}

\* (mutant) the keyword is ignored
filterBooks_All(R) == AllBooks

\* filterBooks
filterBooks(R) == IF R.full THEN AllBooks ELSE AllBooks \cap R.match

\* readSyncState throws: fs.readFile fails with an error that is not ENOENT
\* (failed), or JSON.parse throws
readSyncStateThrows(content, failed) == failed \/ content.kind = "garbage"

\* (mutant) one invalid entry makes the whole load come back empty
readSyncState_AllOrNothing(content) ==
  IF content.kind # "state" THEN EmptyMap
  ELSE IF \E i \in DOMAIN content.assets :
            normalizeStateAsset(i, content.assets[i]) = Rejected
       THEN EmptyMap
       ELSE [i \in DOMAIN content.assets |-> normalizeStateAsset(i, content.assets[i])]

\* readSyncState of the file's content; a missing file, and a file that holds
\* no object, give the empty state
readSyncState(content) ==
  IF content.kind # "state" THEN EmptyMap
  ELSE LET raw == content.assets
           kept == {i \in DOMAIN raw : normalizeStateAsset(i, raw[i]) # Rejected}
       IN  [i \in kept |-> normalizeStateAsset(i, raw[i])]

buildBookFingerprint(i, prev) ==
  LET b == books[i]
      pdfFileStamp == IF b.format = "PDF" THEN b.stamp ELSE NullStamp
      hash == buildBookSyncHash(b.format, b.mod, pdfFileStamp)
  IN  [hash |-> hash,
       shouldHaveOutput |->
         IF b.format = "EPUB" THEN b.out
         ELSE IF i \in DOMAIN prev /\ prev[i].hash = hash
              THEN prev[i].bookFileRelativePath # Null
              ELSE b.out]

\* bookSnapshots of a run that read the previous assets prev
Snapshots(R) ==
  LET fp == [i \in AllBooks |-> buildBookFingerprint(i, R.prev)]
      paths == buildBookFileRelativePathByAssetId(
                 [i \in AllBooks |-> books[i]],
                 [i \in AllBooks |-> fp[i].shouldHaveOutput])
  IN  [i \in filterBooks(R) |->
         [hash |-> fp[i].hash,
          bookFileRelativePath |-> paths[i],
          pdfAssetDirRelativePath |->
            IF books[i].format = "PDF" /\ paths[i] # Null
            THEN PdfAssetDirPath(i) ELSE Null]]

\* the title an entry holds for a document path (or for none)
StateTitle(i, path) ==
  IF path # Null THEN Basename(path) ELSE toShortBookFileStem(books[i].title)

toSyncStateAsset(i, hash, bookFileRelativePath, pdfAssetDirRelativePath) ==
  [assetId |-> i,
   title |-> StateTitle(i, bookFileRelativePath),
   format |-> books[i].format,
   hash |-> hash,
   bookFileRelativePath |-> bookFileRelativePath,
   pdfAssetDirRelativePath |-> pdfAssetDirRelativePath]

shouldRegenerateBook(i, snapshot, prev) ==
  \/ i \notin DOMAIN prev
  \/ prev[i].format # books[i].format
  \/ prev[i].hash # snapshot.hash
  \/ prev[i].bookFileRelativePath # snapshot.bookFileRelativePath

\* (mutant) the prior document is not scanned for the marker
hasLegacyPdfFallbackMarker_Never(files, i, prev) == FALSE

hasLegacyPdfFallbackMarker(files, i, prev) ==
  /\ i \in DOMAIN prev
  /\ prev[i].bookFileRelativePath # Null
  /\ files[prev[i].bookFileRelativePath].kind = "doc"
  /\ files[prev[i].bookFileRelativePath].legacy

\* (mutant) the check of the prior document is left out
hasMissingExpectedBookFile_Never(files, i, prev) == FALSE

hasMissingExpectedBookFile(files, i, prev) ==
  /\ i \in DOMAIN prev
  /\ prev[i].bookFileRelativePath # Null
  /\ ~pathExists(files, prev[i].bookFileRelativePath)

\* what puts a snapshot in changedSnapshots
IsChanged(files, i, snapshot, prev) ==
  \/ shouldRegenerateBook(i, snapshot, prev)
  \/ books[i].format = "PDF" /\ hasLegacyPdfFallbackMarker(files, i, prev)
  \/ hasMissingExpectedBookFile(files, i, prev)

\* nextStateAssets after the loop that refreshes the entries of the run's books
RefreshNext(R, snap) ==
  [i \in DOMAIN R.next |->
     IF i \in DOMAIN snap
     THEN [R.next[i] EXCEPT
             !.title = StateTitle(i, snap[i].bookFileRelativePath),
             !.bookFileRelativePath = snap[i].bookFileRelativePath,
             !.pdfAssetDirRelativePath = snap[i].pdfAssetDirRelativePath]
     ELSE R.next[i]]

\* ------------------------------------------------------------ the run
\* runSync is called: the options are read, and then
\* const previousState = await readSyncState(outputDir).
\* The runs are started in the order of their numbers, and the histories
\* explored end with the kill of a run.
Start(r) ==
  /\ run[r].pc = "idle"
  /\ r > 1 => run[r - 1].pc # "idle"
  /\ \A q \in Runs : run[q].pc # "killed"
  /\ \E d \in BOOLEAN, f \in Filters, ok \in Outcomes :
       /\ ok \/ pathExists(fs.files, StatePath)
       /\ Charge(ok)
       /\ run' = [run EXCEPT ![r] =
                    IF ~readSyncStateThrows(fs.files[StatePath], ~ok)
                    THEN [@ EXCEPT !.pc = "plan", !.dryRun = d, !.full = f.full,
                                   !.match = f.match,
                                   !.seq = \A q \in Runs \ {r} : ~Active(q),
                                   !.prev = readSyncState(fs.files[StatePath]),
                                   !.next = readSyncState(fs.files[StatePath])]
                    ELSE [@ EXCEPT !.pc = "threw", !.dryRun = d, !.full = f.full,
                                   !.match = f.match,
                                   !.err = "read", !.errAt = "read"]]
  /\ UNCHANGED <<books, fs, env, calls>>

\* (mutant) the lock is acquired in a dry run as well
AfterPlan_AlwaysLock(R) == "acquire"

\* if (!options.dryRun) releaseLock = await acquireSyncLock(outputDir): a dry
\* run goes from its plan straight to the build loop
AfterPlan(R) == IF R.dryRun THEN "loop" ELSE "acquire"

\* removedAssetIds: in a full run, the entries read whose record is not among
\* the current books
removedAssetIds(prev, isFullSync) == IF isFullSync THEN DOMAIN prev \ AllBooks ELSE {}

\* fingerprints, allocation, snapshots, changedSnapshots, removedAssetIds
Plan(r) ==
  /\ run[r].pc = "plan"
  /\ LET R == run[r]
         snap == Snapshots(R)
         changed == {i \in DOMAIN snap : IsChanged(fs.files, i, snap[i], R.prev)}
         removed == removedAssetIds(R.prev, R.full)
     IN  run' = [run EXCEPT ![r] =
                   [@ EXCEPT !.pc = AfterPlan(R),
                             !.snap = snap,
                             !.next = RefreshNext(R, snap),
                             !.changed = SortedSeq(changed),
                             !.removed = SortedSeq(removed),
                             !.stats = [ZeroStats EXCEPT
                                          !.totalBooks = Cardinality(DOMAIN snap),
                                          !.skippedBooks =
                                             Cardinality(DOMAIN snap \ changed)]]]
  /\ UNCHANGED <<books, fs, faults, env, calls>>

\* (mutant) the lock file is opened with "w": an existing file is no error
LockOpenEexist_Truncate(files) == FALSE

\* fs.open(lockPath, "wx") raises EEXIST
LockOpenEexist(files) == pathExists(files, LockPath)

\* (mutant) a thrown error is swallowed and the run goes on to its staging area
Fatal_Swallowed(R, what) == [R EXCEPT !.pc = "staging"]

\* where a thrown error is taken: the finally block, with the error pending
Fatal(R, what) == [R EXCEPT !.pc = "finCleanup", !.err = what, !.errAt = R.pc]

\* acquireSyncLock: handle = await fs.open(lockPath, "wx")
AcquireOpen(r) ==
  /\ run[r].pc = "acquire"
  /\ LET R == run[r] IN
     IF LockOpenEexist(fs.files)
     THEN /\ run' = [run EXCEPT ![r] = Fatal(R, "lock")]
          /\ UNCHANGED <<fs, faults>>
     ELSE \E ok \in Outcomes :
            /\ Charge(ok)
            /\ IF ok
               THEN /\ fs' = [fs EXCEPT !.files[LockPath] = LockText(r, FALSE)]
                    /\ run' = [run EXCEPT ![r].pc = "lockWrite"]
               ELSE /\ fs' = fs
                    /\ run' = [run EXCEPT ![r] = Fatal(R, "open")]
  /\ UNCHANGED <<books, env, calls>>

\* acquireSyncLock: await handle.writeFile(pid, timestamp); return the handle
AcquireWrite(r) ==
  /\ run[r].pc = "lockWrite"
  /\ \E ok \in Outcomes :
       /\ Charge(ok)
       /\ IF ok
          THEN /\ fs' = [fs EXCEPT !.files[LockPath] = LockText(r, TRUE)]
               /\ run' = [run EXCEPT ![r].pc = "staging", ![r].lock = "held"]
          ELSE /\ fs' = fs
               /\ run' = [run EXCEPT ![r] = Fatal(run[r], "lockWrite")]
  /\ UNCHANGED <<books, env, calls>>

\* mkdir .staging; rm stagingRoot; mkdir stagingRoot
StagingSetup(r) ==
  /\ run[r].pc = "staging"
  /\ \E ok \in Outcomes :
       /\ Charge(ok)
       /\ IF ok
          THEN /\ fs' = [fs EXCEPT !.stagingRoot[r] = TRUE]
               /\ run' = [run EXCEPT ![r].pc = "loop"]
          ELSE /\ fs' = fs
               /\ run' = [run EXCEPT ![r] = Fatal(run[r], "staging")]
  /\ UNCHANGED <<books, env, calls>>

\* the record the build loop is at
Cur(R) == R.changed[R.idx]

\* the per-record locals, as they are before a record is entered
ClearLocals(R) ==
  [R EXCEPT !.nextPath = Null, !.nextDir = Null, !.imgs = 0,
            !.hadTarget = FALSE, !.preDir = NoDir, !.preDoc = NoFile]

\* (mutant) a null placement is not counted as a success
Commit_NullUncounted(R, path, dir, imgs) ==
  LET i == Cur(R) IN
  ClearLocals(
    [R EXCEPT !.pc = "loop",
              !.idx = R.idx + 1,
              !.next = Put(R.next, i, toSyncStateAsset(i, R.snap[i].hash, path, dir)),
              !.stats.successBooks = R.stats.successBooks + (IF path # Null THEN 1 ELSE 0),
              !.stats.generatedFiles =
                 R.stats.generatedFiles + (IF path # Null THEN 1 + imgs ELSE 0)])

\* nextStateAssets[id] = toSyncStateAsset(...); successBooks += 1;
\* generatedFiles += 1 + generatedPdfImageCount when there is a document
Commit(R, path, dir, imgs) ==
  LET i == Cur(R) IN
  ClearLocals(
    [R EXCEPT !.pc = "loop",
              !.idx = R.idx + 1,
              !.next = Put(R.next, i, toSyncStateAsset(i, R.snap[i].hash, path, dir)),
              !.stats.successBooks = R.stats.successBooks + 1,
              !.stats.generatedFiles =
                 R.stats.generatedFiles + (IF path # Null THEN 1 + imgs ELSE 0)])

\* (mutant) an error of a record is not caught: it ends the try block
Caught_Abort(R) == Fatal(R, "record")

\* an error thrown inside the per-record try
Caught(R) == [R EXCEPT !.pc = "catch", !.errAt = R.pc]

\* (mutant) a dry run does not return after the loops
AfterBuild_NoDryReturn(R) ==
  IF R.full /\ Len(R.removed) > 0 THEN "removal"
  ELSE IF R.full THEN "idxTemp" ELSE "stTemp"

\* where the run goes when the build loop is over
AfterBuild(R) ==
  IF R.full /\ Len(R.removed) > 0 THEN "removal"
  ELSE IF R.dryRun THEN "done"
  ELSE IF R.full THEN "idxTemp" ELSE "stTemp"

\* for (const snapshot of changedSnapshots): the head of the loop
Loop(r) ==
  /\ run[r].pc = "loop"
  /\ LET R == run[r] IN
     run' = [run EXCEPT ![r] =
       IF R.idx > Len(R.changed)
       THEN [R EXCEPT !.pc = AfterBuild(R), !.phases = R.phases \cup {"build"}]
       ELSE IF R.snap[Cur(R)].bookFileRelativePath = Null
            THEN IF R.dryRun THEN Commit(R, Null, Null, 0)
                 ELSE [R EXCEPT !.pc = "nullDoc"]
            ELSE [R EXCEPT !.pc = "render"]]
  /\ UNCHANGED <<books, fs, faults, env, calls>>

\* (mutant) the previous document is never looked for
HasPrevDoc_Never(R, i) == FALSE

\* previousAssetState?.bookFileRelativePath / ?.pdfAssetDirRelativePath
HasPrevDoc(R, i) == i \in DOMAIN R.prev /\ R.prev[i].bookFileRelativePath # Null
HasPrevDir(R, i) == i \in DOMAIN R.prev /\ R.prev[i].pdfAssetDirRelativePath # Null

\* fs.rm(filePath, {force: true})
removeFileIfExists(f, p) == [f EXCEPT !.files[p] = NoFile]

\* fs.rm(dirPath, {recursive: true, force: true}) of a live side-asset directory
removeDirectoryIfExists(f, i) == [f EXCEPT !.dirs[i] = NoDir]

\* what a recursive removal that throws can leave of a directory
RmLeaves(d) == IF d.kind = "none" THEN {d} ELSE {d, Partial}

\* null placement: remove the previous document
NullDoc(r) ==
  /\ run[r].pc = "nullDoc"
  /\ LET R == run[r]
         i == Cur(R) IN
     IF HasPrevDoc(R, i)
     THEN \E ok \in Outcomes :
            /\ Charge(ok)
            /\ IF ok
               THEN /\ fs' = removeFileIfExists(fs, R.prev[i].bookFileRelativePath)
                    /\ run' = [run EXCEPT ![r].pc = "nullDir"]
               ELSE /\ fs' = fs
                    /\ run' = [run EXCEPT ![r] = Caught(R)]
     ELSE /\ run' = [run EXCEPT ![r].pc = "nullDir"]
          /\ UNCHANGED <<fs, faults>>
  /\ UNCHANGED <<books, env, calls>>

\* null placement: remove the previous side-asset directory
NullDir(r) ==
  /\ run[r].pc = "nullDir"
  /\ LET R == run[r]
         i == Cur(R) IN
     IF HasPrevDir(R, i)
     THEN \E ok \in Outcomes :
            /\ Charge(ok)
            /\ IF ok
               THEN /\ fs' = removeDirectoryIfExists(fs, i)
                    /\ run' = [run EXCEPT ![r].pc = "nullCur"]
               ELSE /\ \E d \in RmLeaves(fs.dirs[i]) : fs' = [fs EXCEPT !.dirs[i] = d]
                    /\ run' = [run EXCEPT ![r] = Caught(R)]
     ELSE /\ run' = [run EXCEPT ![r].pc = "nullCur"]
          /\ UNCHANGED <<fs, faults>>
  /\ UNCHANGED <<books, env, calls>>

\* null placement: remove assets/pdf/<id>, then update the entry
NullCur(r) ==
  /\ run[r].pc = "nullCur"
  /\ LET R == run[r]
         i == Cur(R) IN
     \E ok \in Outcomes :
       /\ Charge(ok)
       /\ IF ok
          THEN /\ fs' = removeDirectoryIfExists(fs, i)
               /\ run' = [run EXCEPT ![r] = Commit(R, Null, Null, 0)]
          ELSE /\ \E d \in RmLeaves(fs.dirs[i]) : fs' = [fs EXCEPT !.dirs[i] = d]
               /\ run' = [run EXCEPT ![r] = Caught(R)]
  /\ UNCHANGED <<books, env, calls>>

\* ---------------------------------------------- writeFileAtomically
\* a place a file can be at: the live path, or a temporary name beside it
LiveAt(p) == [area |-> "live", run |-> 0, path |-> p]

\* (mutant) the temporary name is the target itself
tempPath_InPlace(r, filePath) == LiveAt(filePath)

\* const tempPath = `${filePath}.tmp-${Date.now()}-${process.pid}`
tempPath(r, filePath) == [area |-> "tmp", run |-> r, path |-> filePath]

ReadAt(f, loc) == IF loc.area = "live" THEN f.files[loc.path] ELSE f.tmp[loc.run][loc.path]

WriteAt(f, loc, c) ==
  IF loc.area = "live" THEN [f EXCEPT !.files[loc.path] = c]
  ELSE [f EXCEPT !.tmp[loc.run][loc.path] = c]

\* fs.writeFile(loc, content): the trees it can leave; one that throws leaves
\* the file as it was or partly written
writeFile(f, loc, content, ok) ==
  IF ok THEN {WriteAt(f, loc, content)}
  ELSE {f, WriteAt(f, loc, Partial)}

\* fs.rename(from, to) of a file
renameFile(f, from, to) ==
  IF from = to THEN f ELSE WriteAt(WriteAt(f, to, ReadAt(f, from)), from, NoFile)

\* ------------------------------------------------------ the build of a record
\* the markdown and the pages of the record are rendered; a PDF with pages
\* gets its images in the staging directory (not in a dry run)
Render(r) ==
  /\ run[r].pc = "render"
  /\ LET R == run[r]
         i == Cur(R)
         b == books[i]
         snapshot == R.snap[i]
         hasContent == IF b.format = "EPUB" THEN b.out ELSE b.pages
         imgs == IF b.format = "PDF" /\ b.pages /\ ~R.dryRun THEN 1 ELSE 0
         path == IF hasContent THEN snapshot.bookFileRelativePath ELSE Null
         dir == IF ~hasContent THEN Null
                ELSE IF b.format = "EPUB" THEN snapshot.pdfAssetDirRelativePath
                ELSE IF imgs > 0 THEN PdfAssetDirPath(i) ELSE Null
         \* what the path of the entry read for the record holds as the
         \* publish begins
         preDoc == IF HasPrevDoc(R, i) THEN fs.files[R.prev[i].bookFileRelativePath]
                   ELSE NoFile
     IN
     IF b.format = "PDF" /\ b.pages
     THEN \E ok \in Outcomes :
            /\ Charge(ok)
            /\ IF ok
               THEN /\ fs' = IF R.dryRun THEN fs
                             ELSE [fs EXCEPT !.staged[r][i] = RenderPages(i, b)]
                    /\ run' = [run EXCEPT ![r] =
                                 IF R.dryRun THEN Commit(R, path, dir, imgs)
                                 ELSE [R EXCEPT !.pc = "docTemp", !.nextPath = path,
                                                !.nextDir = dir, !.imgs = imgs,
                                                !.preDoc = preDoc]]
               ELSE /\ IF R.dryRun THEN fs' = fs
                       ELSE \E d \in {NoDir, Partial} :
                              fs' = [fs EXCEPT !.staged[r][i] = d]
                    /\ run' = [run EXCEPT ![r] = Caught(R)]
     ELSE /\ run' = [run EXCEPT ![r] =
                       IF R.dryRun THEN Commit(R, path, dir, imgs)
                       ELSE [R EXCEPT !.pc = "docTemp", !.nextPath = path,
                                      !.nextDir = dir, !.imgs = imgs,
                                      !.preDoc = preDoc]]
          /\ UNCHANGED <<fs, faults>>
  /\ UNCHANGED <<books, env, calls>>

\* writeFileAtomically(targetBookPath, markdown): fs.writeFile(tempPath, content)
DocTemp(r) ==
  /\ run[r].pc = "docTemp"
  /\ LET R == run[r]
         i == Cur(R) IN
     IF R.nextPath # Null
     THEN \E ok \in Outcomes :
            /\ Charge(ok)
            /\ fs' \in writeFile(fs, tempPath(r, R.nextPath), RenderDoc(i, books[i]), ok)
            /\ run' = [run EXCEPT ![r] =
                         IF ok THEN [R EXCEPT !.pc = "docRename"] ELSE Caught(R)]
     ELSE /\ run' = [run EXCEPT ![r].pc = "pdfDir"]
          /\ UNCHANGED <<fs, faults>>
  /\ UNCHANGED <<books, env, calls>>

\* writeFileAtomically(targetBookPath, markdown): fs.rename(tempPath, filePath)
DocRename(r) ==
  /\ run[r].pc = "docRename"
  /\ LET R == run[r] IN
     \E ok \in Outcomes :
       /\ Charge(ok)
       /\ fs' = IF ok THEN renameFile(fs, tempPath(r, R.nextPath), LiveAt(R.nextPath))
                ELSE fs
       /\ run' = [run EXCEPT ![r] =
                    IF ok THEN [R EXCEPT !.pc = "pdfDir"] ELSE Caught(R)]
  /\ UNCHANGED <<books, env, calls>>

\* a PDF: the side-asset directory is swapped in (replaceDirectoryAtomically is
\* entered: mkdir of the parent, hadTarget = pathExists(targetDir)), or
\* assets/pdf/<id> is removed
PdfDir(r) ==
  /\ run[r].pc = "pdfDir"
  /\ LET R == run[r]
         i == Cur(R) IN
     IF books[i].format # "PDF"
     THEN /\ run' = [run EXCEPT ![r].pc = "orphDoc"]
          /\ UNCHANGED <<fs, faults>>
     ELSE IF R.nextDir # Null /\ R.imgs > 0
     THEN /\ run' = [run EXCEPT ![r] =
                       [R EXCEPT !.pc = "swap1",
                                 !.hadTarget = (fs.dirs[i].kind # "none"),
                                 !.preDir = fs.dirs[i]]]
          /\ UNCHANGED <<fs, faults>>
     ELSE \E ok \in Outcomes :
            /\ Charge(ok)
            /\ IF ok
               THEN /\ fs' = removeDirectoryIfExists(fs, i)
                    /\ run' = [run EXCEPT ![r].pc = "orphDoc"]
               ELSE /\ \E d \in RmLeaves(fs.dirs[i]) : fs' = [fs EXCEPT !.dirs[i] = d]
                    /\ run' = [run EXCEPT ![r] = Caught(R)]
  /\ UNCHANGED <<books, env, calls>>

\* ------------------------------------------- replaceDirectoryAtomically
\* an error thrown in the try of replaceDirectoryAtomically: its catch runs
SwapFailed(R) == [R EXCEPT !.pc = "rb1", !.errAt = R.pc]

\* if (hadTarget) await fs.rename(targetDir, backupDir)
Swap1(r) ==
  /\ run[r].pc = "swap1"
  /\ LET R == run[r]
         i == Cur(R) IN
     IF R.hadTarget
     THEN \E ok \in Outcomes :
            /\ Charge(ok)
            /\ fs' = IF ok
                     THEN [fs EXCEPT !.bak[r][i] = fs.dirs[i], !.dirs[i] = NoDir]
                     ELSE fs
            /\ run' = [run EXCEPT ![r] =
                         IF ok THEN [R EXCEPT !.pc = "swap2"] ELSE SwapFailed(R)]
     ELSE /\ run' = [run EXCEPT ![r].pc = "swap2"]
          /\ UNCHANGED <<fs, faults>>
  /\ UNCHANGED <<books, env, calls>>

\* await fs.rename(stagingDir, targetDir)
Swap2(r) ==
  /\ run[r].pc = "swap2"
  /\ LET R == run[r]
         i == Cur(R) IN
     \E ok \in Outcomes :
       /\ Charge(ok)
       /\ fs' = IF ok
                THEN [fs EXCEPT !.dirs[i] = fs.staged[r][i], !.staged[r][i] = NoDir]
                ELSE fs
       /\ run' = [run EXCEPT ![r] =
                    IF ok THEN [R EXCEPT !.pc = "swap3"] ELSE SwapFailed(R)]
  /\ UNCHANGED <<books, env, calls>>

\* if (hadTarget) await removeDirectoryIfExists(backupDir)
Swap3(r) ==
  /\ run[r].pc = "swap3"
  /\ LET R == run[r]
         i == Cur(R) IN
     IF R.hadTarget
     THEN \E ok \in Outcomes :
            /\ Charge(ok)
            /\ IF ok THEN fs' = [fs EXCEPT !.bak[r][i] = NoDir]
               ELSE \E d \in RmLeaves(fs.bak[r][i]) : fs' = [fs EXCEPT !.bak[r][i] = d]
            /\ run' = [run EXCEPT ![r] =
                         IF ok THEN [R EXCEPT !.pc = "orphDoc"] ELSE SwapFailed(R)]
     ELSE /\ run' = [run EXCEPT ![r].pc = "orphDoc"]
          /\ UNCHANGED <<fs, faults>>
  /\ UNCHANGED <<books, env, calls>>

\* catch: if (await pathExists(targetDir)) await removeDirectoryIfExists(targetDir)
Rollback1(r) ==
  /\ run[r].pc = "rb1"
  /\ LET R == run[r]
         i == Cur(R) IN
     IF fs.dirs[i].kind # "none"
     THEN \E ok \in HandlerOutcomes :
            /\ Charge(ok)
            /\ IF ok THEN fs' = removeDirectoryIfExists(fs, i)
               ELSE \E d \in RmLeaves(fs.dirs[i]) : fs' = [fs EXCEPT !.dirs[i] = d]
            /\ run' = [run EXCEPT ![r].pc = IF ok THEN "rb2" ELSE "catch"]
     ELSE /\ run' = [run EXCEPT ![r].pc = "rb2"]
          /\ UNCHANGED <<fs, faults>>
  /\ UNCHANGED <<books, env, calls>>

\* catch: if (await pathExists(backupDir)) await fs.rename(backupDir, targetDir)
Rollback2(r) ==
  /\ run[r].pc = "rb2"
  /\ LET R == run[r]
         i == Cur(R) IN
     IF fs.bak[r][i].kind # "none"
     THEN \E ok \in HandlerOutcomes :
            /\ Charge(ok)
            /\ fs' = IF ok
                     THEN [fs EXCEPT !.dirs[i] = fs.bak[r][i], !.bak[r][i] = NoDir]
                     ELSE fs
            /\ run' = [run EXCEPT ![r].pc = IF ok THEN "rb3" ELSE "catch"]
     ELSE /\ run' = [run EXCEPT ![r].pc = "rb3"]
          /\ UNCHANGED <<fs, faults>>
  /\ UNCHANGED <<books, env, calls>>

\* catch: if (await pathExists(stagingDir)) await removeDirectoryIfExists(stagingDir);
\* throw error
Rollback3(r) ==
  /\ run[r].pc = "rb3"
  /\ LET R == run[r]
         i == Cur(R) IN
     IF fs.staged[r][i].kind # "none"
     THEN \E ok \in HandlerOutcomes :
            /\ Charge(ok)
            /\ IF ok THEN fs' = [fs EXCEPT !.staged[r][i] = NoDir]
               ELSE \E d \in RmLeaves(fs.staged[r][i]) :
                      fs' = [fs EXCEPT !.staged[r][i] = d]
            /\ run' = [run EXCEPT ![r].pc = "catch"]
     ELSE /\ run' = [run EXCEPT ![r].pc = "catch"]
          /\ UNCHANGED <<fs, faults>>
  /\ UNCHANGED <<books, env, calls>>

\* ------------------------------------------------- the rest of the record
\* the previous document is removed when the new placement differs from it
OrphDoc(r) ==
  /\ run[r].pc = "orphDoc"
  /\ LET R == run[r]
         i == Cur(R) IN
     IF HasPrevDoc(R, i) /\ R.prev[i].bookFileRelativePath # R.nextPath
     THEN \E ok \in Outcomes :
            /\ Charge(ok)
            /\ fs' = IF ok THEN removeFileIfExists(fs, R.prev[i].bookFileRelativePath)
                     ELSE fs
            /\ run' = [run EXCEPT ![r] =
                         IF ok THEN [R EXCEPT !.pc = "orphDir"] ELSE Caught(R)]
     ELSE /\ run' = [run EXCEPT ![r].pc = "orphDir"]
          /\ UNCHANGED <<fs, faults>>
  /\ UNCHANGED <<books, env, calls>>

\* the previous side-asset directory is removed when the new placement differs
\* from it; then the entry and the counters are updated
OrphDir(r) ==
  /\ run[r].pc = "orphDir"
  /\ LET R == run[r]
         i == Cur(R)
         committed == Commit(R, R.nextPath, R.nextDir, R.imgs) IN
     IF HasPrevDir(R, i) /\ R.prev[i].pdfAssetDirRelativePath # R.nextDir
     THEN \E ok \in Outcomes :
            /\ Charge(ok)
            /\ IF ok THEN fs' = removeDirectoryIfExists(fs, i)
               ELSE \E d \in RmLeaves(fs.dirs[i]) : fs' = [fs EXCEPT !.dirs[i] = d]
            /\ run' = [run EXCEPT ![r] = IF ok THEN committed ELSE Caught(R)]
     ELSE /\ run' = [run EXCEPT ![r] = committed]
          /\ UNCHANGED <<fs, faults>>
  /\ UNCHANGED <<books, env, calls>>

\* catch (error): errors.push(...); failedBooks += 1; the record's staging
\* directory is removed, and an error of that removal leaves the loop and the try
Catch(r) ==
  /\ run[r].pc = "catch"
  /\ LET R == run[r]
         i == Cur(R)
         failed == ClearLocals([R EXCEPT !.stats.failedBooks = R.stats.failedBooks + 1,
                                         !.errors = Append(R.errors, i)])
     IN
     IF R.dryRun
     THEN /\ run' = [run EXCEPT ![r] = [failed EXCEPT !.pc = "loop", !.idx = R.idx + 1]]
          /\ UNCHANGED <<fs, faults>>
     ELSE \E ok \in HandlerOutcomes :
            /\ Charge(ok)
            /\ IF ok THEN fs' = [fs EXCEPT !.staged[r][i] = NoDir]
               ELSE \E d \in RmLeaves(fs.staged[r][i]) :
                      fs' = [fs EXCEPT !.staged[r][i] = d]
            /\ run' = [run EXCEPT ![r] =
                         IF ok THEN [failed EXCEPT !.pc = "loop", !.idx = R.idx + 1]
                         ELSE [failed EXCEPT !.pc = "finCleanup", !.err = "record",
                                              !.errAt = "catch"]]
  /\ UNCHANGED <<books, env, calls>>

\* ------------------------------------------------------------ removals
\* where the run goes when the removal loop is over
AfterRemoval(R) ==
  IF R.dryRun THEN "done" ELSE IF R.full THEN "idxTemp" ELSE "stTemp"

\* for (const removedAssetId of removedAssetIds): the head of the loop; a dry
\* run only deletes the entry from nextStateAssets
Removal(r) ==
  /\ run[r].pc = "removal"
  /\ LET R == run[r] IN
     run' = [run EXCEPT ![r] =
       IF R.ridx > Len(R.removed)
       THEN [R EXCEPT !.pc = AfterRemoval(R), !.phases = R.phases \cup {"removal"}]
       ELSE IF R.dryRun
            THEN [R EXCEPT !.ridx = R.ridx + 1, !.next = Del(R.next, R.removed[R.ridx])]
            ELSE [R EXCEPT !.pc = "rmDoc"]]
  /\ UNCHANGED <<books, fs, faults, env, calls>>

\* (mutant) the entry is deleted also when the removal threw
RemovalFailed_DropsEntry(R) ==
  [R EXCEPT !.pc = "removal", !.ridx = R.ridx + 1,
            !.errors = Append(R.errors, R.removed[R.ridx]),
            !.next = Del(R.next, R.removed[R.ridx])]

\* the removal's catch: errors.push(...); continue
RemovalFailed(R) ==
  [R EXCEPT !.pc = "removal", !.ridx = R.ridx + 1,
            !.errors = Append(R.errors, R.removed[R.ridx])]

\* the document of a record that is gone upstream is removed
RmDoc(r) ==
  /\ run[r].pc = "rmDoc"
  /\ LET R == run[r]
         id == R.removed[R.ridx] IN
     IF R.prev[id].bookFileRelativePath # Null
     THEN \E ok \in Outcomes :
            /\ Charge(ok)
            /\ fs' = IF ok THEN removeFileIfExists(fs, R.prev[id].bookFileRelativePath)
                     ELSE fs
            /\ run' = [run EXCEPT ![r] =
                         IF ok THEN [R EXCEPT !.pc = "rmDir"] ELSE RemovalFailed(R)]
     ELSE /\ run' = [run EXCEPT ![r].pc = "rmDir"]
          /\ UNCHANGED <<fs, faults>>
  /\ UNCHANGED <<books, env, calls>>

\* its side-asset directory is removed, and then delete nextStateAssets[id]
RmDir(r) ==
  /\ run[r].pc = "rmDir"
  /\ LET R == run[r]
         id == R.removed[R.ridx]
         deleted == [R EXCEPT !.pc = "removal", !.ridx = R.ridx + 1,
                              !.next = Del(R.next, id)] IN
     IF R.prev[id].pdfAssetDirRelativePath # Null
     THEN \E ok \in Outcomes :
            /\ Charge(ok)
            /\ IF ok THEN fs' = removeDirectoryIfExists(fs, id)
               ELSE \E d \in RmLeaves(fs.dirs[id]) : fs' = [fs EXCEPT !.dirs[id] = d]
            /\ run' = [run EXCEPT ![r] = IF ok THEN deleted ELSE RemovalFailed(R)]
     ELSE /\ run' = [run EXCEPT ![r] = deleted]
          /\ UNCHANGED <<fs, faults>>
  /\ UNCHANGED <<books, env, calls>>

\* ------------------------------------------------- index.md and the state
\* (mutant) the error of the index write is swallowed
IndexFailed_Swallowed(R) == [R EXCEPT !.pc = "stTemp"]

\* where the run goes when the write of index.md throws
IndexFailed(R) == Fatal(R, "index")

\* writeFileAtomically(index.md, indexMarkdown): fs.writeFile(tempPath, content)
IndexTemp(r) ==
  /\ run[r].pc = "idxTemp"
  /\ LET R == run[r] IN
     \E ok \in Outcomes :
       /\ Charge(ok)
       /\ fs' \in writeFile(fs, tempPath(r, IndexPath), RenderIndex(R.next), ok)
       /\ run' = [run EXCEPT ![r] =
                    IF ok THEN [R EXCEPT !.pc = "idxRename"] ELSE IndexFailed(R)]
  /\ UNCHANGED <<books, env, calls>>

\* writeFileAtomically(index.md, indexMarkdown): fs.rename(tempPath, filePath);
\* generatedFiles += 1
IndexRename(r) ==
  /\ run[r].pc = "idxRename"
  /\ LET R == run[r] IN
     \E ok \in Outcomes :
       /\ Charge(ok)
       /\ fs' = IF ok THEN renameFile(fs, tempPath(r, IndexPath), LiveAt(IndexPath))
                ELSE fs
       /\ run' = [run EXCEPT ![r] =
                    IF ok
                    THEN [R EXCEPT !.pc = "stTemp",
                                   !.stats.generatedFiles = R.stats.generatedFiles + 1,
                                   !.phases = R.phases \cup {"index"}]
                    ELSE IndexFailed(R)]
  /\ UNCHANGED <<books, env, calls>>

\* writeSyncState: const tempPath = `${statePath}.tmp-${Date.now()}-${process.pid}`
stateTempPath(r) == tempPath(r, StatePath)

\* writeSyncState: fs.mkdir(outputDir); fs.writeFile(tempPath, JSON)
StateTemp(r) ==
  /\ run[r].pc = "stTemp"
  /\ LET R == run[r] IN
     \E ok \in Outcomes :
       /\ Charge(ok)
       /\ fs' \in writeFile(fs, stateTempPath(r), StateJson(R.next), ok)
       /\ run' = [run EXCEPT ![r] =
                    IF ok THEN [R EXCEPT !.pc = "stRename"] ELSE Fatal(R, "state")]
  /\ UNCHANGED <<books, env, calls>>

\* writeSyncState: fs.rename(tempPath, statePath)
StateRename(r) ==
  /\ run[r].pc = "stRename"
  /\ LET R == run[r] IN
     \E ok \in Outcomes :
       /\ Charge(ok)
       /\ fs' = IF ok THEN renameFile(fs, stateTempPath(r), LiveAt(StatePath)) ELSE fs
       /\ run' = [run EXCEPT ![r] =
                    IF ok
                    THEN [R EXCEPT !.pc = "finCleanup", !.stWrites = R.stWrites + 1]
                    ELSE Fatal(R, "state")]
  /\ UNCHANGED <<books, env, calls>>

\* ------------------------------------------------------------ finally
\* how the run ends once the finally block is through
Ended(R) == [R EXCEPT !.pc = IF R.err = "" THEN "done" ELSE "threw"]

\* an error thrown inside the finally block replaces the pending one and
\* skips the rest of the block
FinallyThrew(R, what) == [R EXCEPT !.pc = "threw", !.err = what, !.errAt = R.pc]

\* (mutant) the staging directory is left in place
removeStagingRoot_Keep(f, r) == f

\* removeDirectoryIfExists(stagingRoot): the staging directory of run r and
\* what is staged in it
removeStagingRoot(f, r) ==
  [f EXCEPT !.stagingRoot[r] = FALSE, !.staged[r] = [i \in Ids |-> NoDir]]

\* (mutant) the release is called also when the lock was not acquired
AfterCleanup_AlwaysRelease(R) == [R EXCEPT !.pc = "finRelease"]

\* finally: if (releaseLock) await releaseLock(), and the run is over
AfterCleanup(R) == IF R.lock = "held" THEN [R EXCEPT !.pc = "finRelease"] ELSE Ended(R)

\* finally: if (!options.dryRun) await removeDirectoryIfExists(stagingRoot)
FinCleanup(r) ==
  /\ run[r].pc = "finCleanup"
  /\ LET R == run[r] IN
     \E ok \in Outcomes :
       /\ Charge(ok)
       /\ fs' = IF ok THEN removeStagingRoot(fs, r) ELSE fs
       /\ run' = [run EXCEPT ![r] =
                    IF ~ok THEN FinallyThrew(R, "cleanup") ELSE AfterCleanup(R)]
  /\ UNCHANGED <<books, env, calls>>

\* (mutant) the handle without its released flag
releaseLock_NoFlag(f, released) == removeFileIfExists(f, LockPath)

\* the release handle: if (released) return; released = true;
\* await handle.close(); await fs.rm(lockPath, {force: true})
releaseLock(f, released) == IF released THEN f ELSE removeFileIfExists(f, LockPath)

\* finally: if (releaseLock) await releaseLock()
FinRelease(r) ==
  /\ run[r].pc = "finRelease"
  /\ LET R == run[r] IN
     \E ok \in Outcomes :
       /\ Charge(ok)
       /\ fs' = IF ok THEN releaseLock(fs, R.lock = "released") ELSE fs
       /\ run' = [run EXCEPT ![r] =
                    IF ok THEN Ended([R EXCEPT !.lock = "released", !.relCalls = 1])
                    ELSE FinallyThrew([R EXCEPT !.lock = "released", !.relCalls = 1],
                                      "release")]
  /\ UNCHANGED <<books, env, calls>>

\* the handle is called again after the run is over; the call is taken at the
\* moments that differ for the lock file: when another run has just acquired
\* the lock, and when every run is over
ReleaseAgain(r) ==
  /\ run[r].pc \in {"done", "threw"}
  /\ run[r].lock = "released"
  /\ run[r].relCalls < MaxReleaseCalls
  /\ \/ \E q \in Runs \ {r} : run[q].pc = "staging"
     \/ \A q \in Runs : run[q].pc \in Terminal
  /\ fs' = releaseLock(fs, run[r].lock = "released")
  /\ run' = [run EXCEPT ![r].relCalls = @ + 1]
  /\ UNCHANGED <<books, faults, env, calls>>

\* the process of the run is killed, at a point where the run has touched the
\* output root (before that, and in a dry run, a kill leaves no trace)
Crash(r) ==
  /\ Active(r)
  /\ ~run[r].dryRun
  /\ run[r].pc \notin {"plan", "acquire"}
  /\ faults < MaxFaults
  /\ faults' = faults + 1
  /\ run' = [run EXCEPT ![r].pc = "killed", ![r].errAt = run[r].pc]
  /\ UNCHANGED <<books, fs, env, calls>>

\* ------------------------------------------------------- the environment
\* the sources change between two runs; the histories explored have the
\* change before the first failure
Quiet ==
  /\ \A r \in Runs : ~Active(r)
  /\ run[1].pc # "idle"
  /\ \E r \in Runs : run[r].pc = "idle"
  /\ faults = 0

\* an annotation of book i is added or edited
Touch(i) ==
  /\ Quiet
  /\ env < MaxEnv
  /\ books[i].present
  /\ books' = [books EXCEPT ![i].mod = @ + 1]
  /\ env' = env + 1
  /\ UNCHANGED <<fs, run, faults, calls>>

\* book i is deleted from the library
RemoveBook(i) ==
  /\ Quiet
  /\ env < MaxEnv
  /\ books[i].present
  /\ books' = [books EXCEPT ![i].present = FALSE]
  /\ env' = env + 1
  /\ UNCHANGED <<fs, run, faults, calls>>

\* the author of book i is edited in the library; its annotations stay as
\* they are
EditAuthor(i) ==
  /\ Quiet
  /\ env < MaxEnv
  /\ books[i].present
  /\ books' = [books EXCEPT ![i].author = "y"]
  /\ env' = env + 1
  /\ UNCHANGED <<fs, run, faults, calls>>

\* every annotation of book i is deleted: no row is left for its modification
\* date, and nothing of it is renderable
ClearAnnotations(i) ==
  /\ Quiet
  /\ env < MaxEnv
  /\ books[i].present
  /\ books[i].out
  /\ books' = [books EXCEPT ![i].mod = NoMod, ![i].out = FALSE, ![i].pages = FALSE]
  /\ env' = env + 1
  /\ UNCHANGED <<fs, run, faults, calls>>

\* the published document at path p is deleted from outside
DeleteDoc(p) ==
  /\ Quiet
  /\ env < MaxEnv
  /\ fs.files[p].kind = "doc"
  /\ fs' = removeFileIfExists(fs, p)
  /\ env' = env + 1
  /\ UNCHANGED <<books, run, faults, calls>>

\* the published document at path p is one that holds the text of
\* LEGACY_PDF_FALLBACK_MARKER: an older version wrote it, or it was edited
MarkLegacy(p) ==
  /\ Quiet
  /\ env < MaxEnv
  /\ fs.files[p].kind = "doc"
  /\ ~fs.files[p].legacy
  /\ fs' = [fs EXCEPT !.files[p].legacy = TRUE]
  /\ env' = env + 1
  /\ UNCHANGED <<books, run, faults, calls>>

\* the ways an entry of the state file can be spoilt: no object, and an
\* unknown kind
Spoilt(entry) == {Null, [entry EXCEPT !.format = "MOBI"]}

\* the state file is edited from outside: one entry is spoilt
TamperEntry(i) ==
  /\ Quiet
  /\ env < MaxEnv
  /\ fs.files[StatePath].kind = "state"
  /\ i \in DOMAIN fs.files[StatePath].assets
  /\ fs.files[StatePath].assets[i] # Null
  /\ \E bad \in Spoilt(fs.files[StatePath].assets[i]) :
       fs' = [fs EXCEPT !.files[StatePath].assets[i] = bad]
  /\ env' = env + 1
  /\ UNCHANGED <<books, run, faults, calls>>

\* the state file is replaced from outside by one that does not parse, or by
\* one that parses to no object
TamperFile ==
  /\ Quiet
  /\ env < MaxEnv
  /\ fs.files[StatePath].kind = "state"
  /\ \E c \in {Unparseable, ScalarJson} : fs' = [fs EXCEPT !.files[StatePath] = c]
  /\ env' = env + 1
  /\ UNCHANGED <<books, run, faults, calls>>

Next ==
  \/ \E r \in Runs :
       \/ Start(r) \/ Plan(r) \/ AcquireOpen(r) \/ AcquireWrite(r) \/ StagingSetup(r)
       \/ Loop(r) \/ NullDoc(r) \/ NullDir(r) \/ NullCur(r)
       \/ Render(r) \/ DocTemp(r) \/ DocRename(r) \/ PdfDir(r)
       \/ Swap1(r) \/ Swap2(r) \/ Swap3(r)
       \/ Rollback1(r) \/ Rollback2(r) \/ Rollback3(r)
       \/ OrphDoc(r) \/ OrphDir(r) \/ Catch(r)
       \/ Removal(r) \/ RmDoc(r) \/ RmDir(r)
       \/ IndexTemp(r) \/ IndexRename(r) \/ StateTemp(r) \/ StateRename(r)
       \/ FinCleanup(r) \/ FinRelease(r) \/ ReleaseAgain(r) \/ Crash(r)
  \/ \E i \in Ids : Touch(i) \/ RemoveBook(i) \/ ClearAnnotations(i) \/ TamperEntry(i)
  \/ \E i \in Ids : EditAuthor(i)
  \/ TamperFile
  \/ \E p \in DocPaths : DeleteDoc(p) \/ MarkLegacy(p)

Spec == Init /\ [][Next]_vars

\* ------------------------------------------- the library functions, called
\* The functions of sync-state.ts and sync.ts that compute the fingerprint are
\* called on records of every kind, with and without annotations, with every
\* outcome of the probe of the source file; no run is made.
Stamps == {NullStamp, MissingStamp, FileStamp(5, 0), FileStamp(10009, 20)}

HashBookChoices ==
  {[present |-> TRUE, format |-> f, title |-> m[1], author |-> m[2],
    mod |-> d, out |-> TRUE, pages |-> FALSE, stamp |-> st] :
     f \in {"EPUB", "PDF"},
     m \in {<<(<<"A">>), "x">>, <<(<<"B">>), "y">>},
     d \in {NoMod, 0},
     st \in Stamps}

InitHash ==
  /\ books \in [Ids -> HashBookChoices]
  /\ fs = EmptyFs
  /\ run = [r \in Runs |-> IdleRun]
  /\ faults = 0
  /\ env = 0
  /\ calls = EmptyMap

\* buildBookSyncHash(format, annotationMaxModificationDate, pdfFileStamp) is
\* called with what is known of record i
CallSyncHash(i) ==
  /\ i \notin DOMAIN calls
  /\ calls' = Put(calls, i,
                  [fn |-> "buildBookSyncHash",
                   result |-> buildBookSyncHash(books[i].format, books[i].mod,
                                                books[i].stamp)])
  /\ UNCHANGED <<books, fs, run, faults, env>>

\* buildBookFingerprint(book, ...) is called for record i
CallFingerprint(i) ==
  /\ i \notin DOMAIN calls
  /\ calls' = Put(calls, i,
                  [fn |-> "buildBookFingerprint",
                   result |-> buildBookFingerprint(i, EmptyMap).hash])
  /\ UNCHANGED <<books, fs, run, faults, env>>

\* the planner's test of record i: the entry it reads was stored when the
\* probe of the source file gave the stamp before, with the annotations and
\* the placement as they are now; the snapshot is the one of now
CallShouldRegenerate(i) ==
  /\ i \notin DOMAIN calls
  /\ \E before \in Stamps :
       LET b == books[i]
           path == BookPath(toShortBookFileStem(b.title), 0)
           stored == buildBookSyncHash(b.format, b.mod,
                                       IF b.format = "PDF" THEN before ELSE NullStamp)
           prev == Put(EmptyMap, i, toSyncStateAsset(i, stored, path, Null))
           snapshot == [hash |-> buildBookFingerprint(i, prev).hash,
                        bookFileRelativePath |-> path,
                        pdfAssetDirRelativePath |-> Null]
       IN  calls' = Put(calls, i,
                        [fn |-> "shouldRegenerateBook",
                         before |-> before,
                         result |-> shouldRegenerateBook(i, snapshot, prev)])
  /\ UNCHANGED <<books, fs, run, faults, env>>

NextHash ==
  \E i \in Ids : CallSyncHash(i) \/ CallFingerprint(i) \/ CallShouldRegenerate(i)

SpecHash == InitHash /\ [][NextHash]_vars

\* The allocator of book-file-name.ts is called on lists of books whose
\* titles share a stem or not, with every choice of the books that have
\* output; no run is made.
AllocIds == 1..NumAllocBooks

AllocTitles == {<<"A">>, <<" ", "A">>, <<"A", "_", "2">>, <<"B">>}

\* the orders a caller can list the books in
Orders == {o \in [AllocIds -> AllocIds] : \A i \in AllocIds : \E k \in AllocIds : o[k] = i}

\* the list of the books in the order o
ListOf(o) == [k \in AllocIds |-> [assetId |-> o[k], title |-> books[o[k]].title]]

\* the maps of flags a caller can pass: a flag for some of the ids
FlagMaps == UNION {[S -> BOOLEAN] : S \in SUBSET AllocIds}

InitAlloc ==
  /\ books \in [AllocIds -> {[title |-> t] : t \in AllocTitles}]
  /\ fs = EmptyFs
  /\ run = [r \in Runs |-> IdleRun]
  /\ faults = 0
  /\ env = 0
  /\ calls = EmptyMap

\* buildBookFileRelativePathByAssetId(books, hasOutputByAssetId, "books") on
\* the books in some order and some map of flags; has is the flag the
\* function reads for each id
CallAllocate ==
  /\ calls = EmptyMap
  /\ \E flags \in FlagMaps, o \in Orders :
       calls' = Put(calls, 1,
                    [fn |-> "buildBookFileRelativePathByAssetId",
                     flags |-> flags,
                     has |-> [i \in AllocIds |-> HasOutput(flags, i)],
                     order |-> o,
                     result |-> buildBookFileRelativePathByAssetIdOfList(ListOf(o), flags)])
  /\ UNCHANGED <<books, fs, run, faults, env>>

NextAlloc == CallAllocate

SpecAlloc == InitAlloc /\ [][NextAlloc]_vars

\* ================================================================ claims
\* the runs that came to their end by returning
Returned(r) == run[r].pc = "done"

\* the assets the State Store file holds, as written (before normalisation)
StoredAssets == IF fs.files[StatePath].kind = "state" THEN fs.files[StatePath].assets
                ELSE EmptyMap

\* C1: idempotence. When a non-dry full run has returned and a second non-dry
\* full run, started after it with the sources and the files unchanged and no
\* call failing, has returned too, the second run built nothing (successBooks
\* = 0, failedBooks = 0, skippedBooks = totalBooks) and wrote the same assets
\* to the State Store as the first.
C1_Idempotence ==
  (/\ Returned(1) /\ Returned(2)
   /\ run[2].seq
   /\ ~run[1].dryRun /\ ~run[2].dryRun
   /\ run[1].full /\ run[2].full
   /\ faults = 0 /\ env = 0)
  => /\ run[2].stats.successBooks = 0
     /\ run[2].stats.failedBooks = 0
     /\ run[2].stats.skippedBooks = run[2].stats.totalBooks
     /\ run[2].next = run[1].next

\* the step is one of run r
StepOf(r) == run'[r] # run[r]

\* the positions of a run inside a call of writeFileAtomically, and the path
\* the call is to publish
InAtomicWrite(R) ==
  \/ R.pc \in {"docTemp", "docRename"} /\ R.nextPath # Null
  \/ R.pc \in {"idxTemp", "idxRename"}
AtomicTarget(R) == IF R.pc \in {"docTemp", "docRename"} THEN R.nextPath ELSE IndexPath

C2_Step(r) ==
  LET R == run[r]
      target == AtomicTarget(R)
  IN  (InAtomicWrite(R) /\ StepOf(r))
      => \/ fs'.files[target] = fs.files[target]
         \/ /\ R.pc \in {"docRename", "idxRename"}
            /\ run'[r].pc \in {"pdfDir", "stTemp"}
            /\ fs'.files[target].kind \in {"doc", "index"}

\* C2: atomic document publish. A step of writeFileAtomically leaves the target
\* path as it was, unless it is the rename and the rename returns, and then the
\* target holds the complete new content: when the write of the temporary file
\* or the rename throws, the target holds its content of before the call.
C2_AtomicPublish == [][\A r \in Runs : C2_Step(r)]_vars

\* C2 (witness): writeFileAtomically has thrown for a document whose path held
\* a document before the call, and the path still holds one
C2_Witness ==
  \E r \in Runs :
    /\ run[r].pc = "catch"
    /\ run[r].errAt \in {"docTemp", "docRename"}
    /\ fs.files[run[r].nextPath].kind = "doc"

\* the positions of the three steps of replaceDirectoryAtomically
SwapSteps == {"swap1", "swap2", "swap3"}

\* C3: directory swap rollback. When replaceDirectoryAtomically has thrown
\* because one of its three steps failed, and the target directory existed
\* before the call, the target directory holds its content of before the call
\* and the staged directory is gone.
C3_SwapRollback ==
  \A r \in Runs :
    LET R == run[r] IN
    (R.pc = "catch" /\ R.errAt \in SwapSteps /\ R.hadTarget)
    => /\ fs.dirs[Cur(R)] = R.preDir
       /\ fs.staged[r][Cur(R)] = NoDir

\* C4: crash safety of publish. When a non-dry run is interrupted inside the
\* directory swap of a record whose side-asset directory was published before,
\* the live side-asset path holds a complete directory, the previous one or
\* the new one.
C4_CrashSafety ==
  \A r \in Runs :
    LET R == run[r] IN
    (R.pc = "killed" /\ R.errAt \in SwapSteps /\ R.hadTarget)
    => fs.dirs[Cur(R)] \in {R.preDir, RenderPages(Cur(R), books[Cur(R)])}

\* the records for which run r stored an entry that places a document
Placed(r) == {i \in DOMAIN run[r].next : run[r].next[i].bookFileRelativePath # Null}

\* C5: whole-run mutual exclusion. When two non-dry runs have both returned,
\* with no failure and no change of the sources, the State Store holds an
\* entry for every record either run placed a document for, as it does after
\* the two runs executed one after the other in either order: no update of one
\* run is lost to the other.
C5_NoLostUpdate ==
  (/\ \A r \in Runs : Returned(r) /\ ~run[r].dryRun
   /\ faults = 0 /\ env = 0)
  => \A r \in Runs : Placed(r) \subseteq DOMAIN StoredAssets

\* run r holds the lock: its acquireSyncLock has returned the release handle
\* and the handle has not been called
Holds(r) == run[r].lock = "held"

C6_OneHolder ==
  \A r \in Runs :
    Holds(r) => /\ \A q \in Runs : Holds(q) => q = r
                /\ fs.files[LockPath] = LockText(r, TRUE)

C6_Contended(r) ==
  (run[r].pc = "acquire" /\ StepOf(r) /\ pathExists(fs.files, LockPath))
  => /\ run'[r].pc = "finCleanup"
     /\ run'[r].err = "lock"
     /\ run'[r].lock = "none"
     /\ fs' = fs

\* C6: lock exclusivity. At most one run holds the lock at any time, and the
\* lock file is the holder's; an acquireSyncLock made while the lock file
\* exists throws the "another sync process is running" error in that one step,
\* without acquiring, and leaves the lock file and the rest of the tree as
\* they were.
C6_LockExclusivity == []C6_OneHolder /\ [][\A r \in Runs : C6_Contended(r)]_vars

\* C6 (witness): a run has been refused the lock while another run holds it,
\* and the lock file is still the holder's
C6_Witness ==
  \E r, q \in Runs :
    /\ r # q
    /\ Holds(q)
    /\ run[r].err = "lock"
    /\ fs.files[LockPath] = LockText(q, TRUE)

\* the output root without its lock file
OutputTree(f) == [f EXCEPT !.files[LockPath] = NoFile]

C7_Step(r) ==
  (StepOf(r) /\ OutputTree(fs') # OutputTree(fs))
  => /\ Holds(r)
     /\ ~run[r].dryRun
     /\ fs.files[LockPath] = LockText(r, TRUE)

\* C7: mutations within the lock. A step of a run that changes anything of the
\* output root other than the lock file (the staging area, a document, a
\* side-asset directory, index.md, the State Store) is a step of a non-dry run
\* that holds the lock when it takes it: the run has acquired the lock before
\* and has not yet called its release.
C7_MutationsWithinLock == [][\A r \in Runs : C7_Step(r)]_vars

\* C7 (witness): a non-dry run has built, written the State Store and still
\* has its staging area and the lock, its release not yet called
C7_Witness ==
  \E r \in Runs :
    /\ run[r].pc = "finCleanup"
    /\ Holds(r)
    /\ run[r].stWrites = 1
    /\ run[r].stats.successBooks > 0
    /\ fs.stagingRoot[r]

\* C8: guaranteed lock release. When a non-dry run that acquired the lock has
\* terminated, by returning or by throwing, the lock file it created no longer
\* exists.
C8_LockReleased ==
  \A r \in Runs :
    (run[r].pc \in {"done", "threw"} /\ run[r].lock # "none")
    => ~(fs.files[LockPath].kind = "lock" /\ fs.files[LockPath].pid = r)

\* the step is a call of the release handle of run r after its first call
C9_SecondCall(r) == run[r].relCalls >= 1 /\ run'[r].relCalls = run[r].relCalls + 1

\* C9: release idempotence. A call of a release handle after its first call
\* changes nothing of the output root: the lock file that another run has
\* created in between stays in place.
C9_ReleaseIdempotent == [][\A r \in Runs : C9_SecondCall(r) => fs' = fs]_vars

\* C9 (witness): the handle of a run has been called a second time while
\* another run holds the lock, and the lock file of that run is in place
C9_Witness ==
  \E r, q \in Runs :
    /\ r # q
    /\ run[r].relCalls = 2
    /\ Holds(q)
    /\ fs.files[LockPath] = LockText(q, TRUE)

\* the phases a run has to complete before it writes the State Store: the
\* removal loop and the index write belong to full runs only
RequiredPhases(R) ==
  {"build"} \cup (IF R.full /\ Len(R.removed) > 0 THEN {"removal"} ELSE {})
            \cup (IF R.full THEN {"index"} ELSE {})

\* the errors thrown inside the finally block, after the try block is over
FinallyErrors == {"cleanup", "release"}

C10_Write ==
  (fs'.files[StatePath] # fs.files[StatePath] /\ env' = env)
  => \E r \in Runs :
       LET R == run[r] IN
       /\ StepOf(r)
       /\ ~R.dryRun
       /\ R.pc = "stRename"
       /\ R.err = ""
       /\ R.stWrites = 0
       /\ run'[r].stWrites = 1
       /\ R.idx > Len(R.changed)
       /\ RequiredPhases(R) \subseteq R.phases
       /\ fs'.files[StatePath] = StateJson(R.next)

C10_Aborted ==
  \A r \in Runs :
    /\ run[r].stWrites <= 1
    /\ (run[r].pc = "threw" /\ run[r].err \notin FinallyErrors) => run[r].stWrites = 0

\* C10: an aborting run never writes the State Store. In the steps of the
\* program (all but the edits of the file from outside) the State Store file
\* changes only in the rename of writeSyncState, taken by a non-dry run with no
\* error pending, at most once per run and after the build loop, the removal
\* loop and the index write of the run have completed; a run that has ended
\* with an error thrown before its finally block (lock contention, index write
\* failure, an exception that escaped a per-record handler) has not written it.
C10_NoWriteOnAbort == []C10_Aborted /\ [][C10_Write]_vars

\* C10 (witness): a full run that rebuilt a record has ended with the index
\* write failure, and the State Store of the run before it is in place
C10_Witness ==
  \E r \in Runs :
    /\ run[r].pc = "threw"
    /\ run[r].err = "index"
    /\ run[r].stats.successBooks > 0
    /\ fs.files[StatePath].kind = "state"
    /\ fs.files[StatePath] # StateJson(run[r].next)

\* C11: a dry run is read-only. No step of a run with dryRun = true changes
\* anything of the output root: the live tree, the State Store file, the
\* staging area, the temporary and backup names and the lock file stay as they
\* are, whatever the run has planned.
C11_DryRunReadOnly == [][\A r \in Runs : (StepOf(r) /\ run'[r].dryRun) => fs' = fs]_vars

\* C11 (witness): a dry full run has returned after it counted a record of its
\* build set and went through a removal
C11_Witness ==
  \E r \in Runs :
    /\ run[r].dryRun
    /\ Returned(r)
    /\ run[r].stats.successBooks > 0
    /\ Len(run[r].removed) > 0
    /\ run[r].ridx > Len(run[r].removed)

\* C12: dry-run count equivalence. When a dry run has returned and a non-dry
\* run with the same options has then run from the same sources, State Store
\* and live tree and returned with no operation failed, the two runs report the
\* same totalBooks, successBooks, failedBooks, skippedBooks and generatedFiles.
C12_DryRunCounts ==
  (/\ Returned(1) /\ Returned(2)
   /\ run[1].dryRun /\ ~run[2].dryRun
   /\ run[2].seq
   /\ run[1].full = run[2].full /\ run[1].match = run[2].match
   /\ faults = 0 /\ env = 0)
  => run[1].stats = run[2].stats

C13_NoLockStep(r) ==
  (StepOf(r) /\ run'[r].dryRun)
  => /\ fs'.files[LockPath] = fs.files[LockPath]
     /\ run'[r].lock = "none"
     /\ run'[r].pc \notin {"acquire", "lockWrite", "finRelease"}

C13_NotRefused ==
  \A r \in Runs :
    (run[r].dryRun /\ run[r].pc # "idle")
    => /\ run[r].err \in {"", "read"}
       /\ run[r].pc \in {"plan", "loop", "render", "catch", "removal", "done", "threw"}

\* C13: dry runs never acquire the lock. No step of a dry run creates, writes
\* or removes the lock file or makes the run a holder; a dry run is never
\* refused for the lock and is never at a step that needs it, so that it runs
\* to its return while another run holds the lock.
C13_DryRunNoLock == []C13_NotRefused /\ [][\A r \in Runs : C13_NoLockStep(r)]_vars

\* C13 (witness): a dry run has counted a record and returned while another
\* run, which has just acquired the lock, holds it
C13_Witness ==
  \E r, q \in Runs :
    /\ run[r].dryRun /\ Returned(r)
    /\ run[r].stats.successBooks > 0
    /\ Holds(q) /\ run[q].pc = "staging"
    /\ fs.files[LockPath] = LockText(q, TRUE)

\* the records a filtered run r does not match and has read an entry for
UnmatchedPrev(r) == (DOMAIN run[r].prev) \ run[r].match

C14_Entries(r) ==
  LET R == run[r] IN
  (StepOf(r) /\ ~R.full /\ R.pc = "stRename" /\ run'[r].stWrites = 1)
  => LET written == fs'.files[StatePath].assets IN
     \A i \in Ids \ R.match :
       IF i \in DOMAIN R.prev
       THEN i \in DOMAIN written /\ written[i] = R.prev[i]
       ELSE i \notin DOMAIN written

C14_Artifacts(r) ==
  LET R == run[r] IN
  (StepOf(r) /\ ~R.full /\ R.pc # "idle")
  => \A i \in UnmatchedPrev(r) :
       /\ (R.prev[i].bookFileRelativePath # Null
           /\ pathExists(fs.files, R.prev[i].bookFileRelativePath))
          => pathExists(fs'.files, R.prev[i].bookFileRelativePath)
       /\ R.prev[i].pdfAssetDirRelativePath # Null => fs'.dirs[i] = fs.dirs[i]

C15_Step(r) ==
  LET R == run[r] IN
  (/\ StepOf(r) /\ R.full /\ R.pc = "stRename" /\ run'[r].stWrites = 1
   /\ faults = 0)
  => \A i \in (DOMAIN R.prev) \ AllBooks :
       /\ i \notin DOMAIN fs'.files[StatePath].assets
       /\ R.prev[i].bookFileRelativePath # Null
          => ~pathExists(fs'.files, R.prev[i].bookFileRelativePath)
       /\ R.prev[i].pdfAssetDirRelativePath # Null => fs'.dirs[i] = NoDir

\* C15: removal in full runs. When a non-dry full run in which nothing failed
\* writes the State Store, every record that had an entry in the State Store
\* the run read and is absent from the current records has no entry in the
\* State Store written, and the document and the side-asset directory its
\* entry recorded are absent from the live tree.
C15_RemovalInFullRuns == [][\A r \in Runs : C15_Step(r)]_vars

\* C15 (witness): a full run has returned after it removed a record that is
\* gone upstream: the entry and the document it recorded are gone
C15_Witness ==
  \E r \in Runs :
    /\ run[r].full /\ ~run[r].dryRun /\ Returned(r)
    /\ faults = 0
    /\ \E k \in 1..Len(run[r].removed) :
         LET i == run[r].removed[k] IN
         /\ run[r].prev[i].bookFileRelativePath # Null
         /\ ~pathExists(fs.files, run[r].prev[i].bookFileRelativePath)
         /\ i \notin DOMAIN StoredAssets

\* changedSnapshots of a run, as the set of its records
BuildSet(R) == {R.changed[k] : k \in 1..Len(R.changed)}

\* the document the entry read for record i records is not on disk
DocMissing(r, i) ==
  /\ i \in DOMAIN run[r].prev
  /\ run[r].prev[i].bookFileRelativePath # Null
  /\ ~pathExists(fs.files, run[r].prev[i].bookFileRelativePath)

C16_Step(r) ==
  (StepOf(r) /\ run[r].pc = "plan")
  => \A i \in filterBooks(run[r]) : DocMissing(r, i) => i \in BuildSet(run'[r])

\* C16: self-healing. When a run, full or filtered, plans and the document
\* that the State Store entry of one of its records records is not in the live
\* tree, the record is in the build set of the run, also when its kind,
\* fingerprint and allocated path equal those of the entry.
C16_SelfHealing == [][\A r \in Runs : C16_Step(r)]_vars

\* C16 (witness): a filtered run has planned, and its build set holds a record
\* whose kind, fingerprint and path are those of its entry and whose document
\* is missing
C16_Witness ==
  \E r \in Runs :
    /\ run[r].pc = "acquire"
    /\ ~run[r].full
    /\ \E i \in BuildSet(run[r]) :
         /\ DocMissing(r, i)
         /\ ~shouldRegenerateBook(i, run[r].snap[i], run[r].prev)

\* the records of a run that are not in its build set
SkipSet(R) == (DOMAIN R.snap) \ BuildSet(R)

\* the entry read for record i has the kind, the fingerprint and the document
\* path that snapshot has, and the document is on disk
SameAsPrior(r, i, snapshot) ==
  /\ i \in DOMAIN run[r].prev
  /\ run[r].prev[i].format = books[i].format
  /\ run[r].prev[i].hash = snapshot.hash
  /\ run[r].prev[i].bookFileRelativePath = snapshot.bookFileRelativePath
  /\ run[r].prev[i].bookFileRelativePath # Null
  /\ pathExists(fs.files, run[r].prev[i].bookFileRelativePath)

\* the document of the entry read for record i holds the legacy marker
PriorHasMarker(r, i) ==
  /\ fs.files[run[r].prev[i].bookFileRelativePath].kind = "doc"
  /\ fs.files[run[r].prev[i].bookFileRelativePath].legacy

C17_Count(r) ==
  /\ DOMAIN run'[r].snap = filterBooks(run[r])
  /\ run'[r].stats.skippedBooks = Cardinality(SkipSet(run'[r]))

C17_NoWrite(r) ==
  (StepOf(r) /\ run[r].pc \notin {"idle", "plan"})
  => \A i \in SkipSet(run[r]) :
       /\ fs'.files[run[r].snap[i].bookFileRelativePath]
            = fs.files[run[r].snap[i].bookFileRelativePath]
       /\ fs'.dirs[i] = fs.dirs[i]

\* C17 (as stated): a record of the run is skipped if and only if its entry has
\* the same kind, fingerprint and path, its document is on disk and the
\* document does not hold the legacy marker, whatever the kind of the record.
C17_AsStated ==
  [][\A r \in Runs :
       (StepOf(r) /\ run[r].pc = "plan")
       => \A i \in filterBooks(run[r]) :
            i \in SkipSet(run'[r])
            <=> (SameAsPrior(r, i, run'[r].snap[i]) /\ ~PriorHasMarker(r, i))]_vars

\* C17: change planner decision. A record of the run's record set is skipped
\* if and only if the entry read for it has the same kind, fingerprint and
\* allocated document path, that document is on disk and, for a PDF record,
\* the document does not hold the legacy marker (the document of an EPUB record
\* is not scanned); every other record is in the build set. skippedBooks is the
\* number of the skipped records, and no step of the run changes the document
\* or the side-asset directory of a skipped record.
C17_PlannerDecision ==
  [][\A r \in Runs :
       /\ (StepOf(r) /\ run[r].pc = "plan")
          => /\ C17_Count(r)
             /\ \A i \in filterBooks(run[r]) :
                  i \in SkipSet(run'[r])
                  <=> /\ SameAsPrior(r, i, run'[r].snap[i])
                      /\ books[i].format = "PDF" => ~PriorHasMarker(r, i)
       /\ C17_NoWrite(r)]_vars

\* C17 (witness): a run has planned and skipped an EPUB record whose document
\* holds the marker, and put in its build set nothing or other records
C17_Witness ==
  \E r \in Runs :
    /\ run[r].pc \in {"acquire", "loop"}
    /\ \E i \in SkipSet(run[r]) :
         /\ books[i].format = "EPUB"
         /\ SameAsPrior(r, i, run[r].snap[i])
         /\ PriorHasMarker(r, i)
    /\ run[r].stats.skippedBooks = Cardinality(SkipSet(run[r]))

\* the entry of a record that is placed nowhere
NullEntry(R, i) == toSyncStateAsset(i, R.snap[i].hash, Null, Null)

\* the steps of the null placement only remove
C18_NoDocWritten(r) ==
  (StepOf(r) /\ run[r].pc \in {"nullDoc", "nullDir", "nullCur"})
  => /\ run[r].snap[Cur(run[r])].bookFileRelativePath = Null
     /\ \A p \in DocPaths : fs'.files[p] \in {fs.files[p], NoFile}

\* the null placement of the current record is completed
C18_Placed(r) ==
  LET R == run[r]
      i == Cur(R) IN
  (StepOf(r) /\ R.pc = "nullCur" /\ run'[r].pc = "loop")
  => /\ (i \in DOMAIN R.prev /\ R.prev[i].bookFileRelativePath # Null)
        => ~pathExists(fs'.files, R.prev[i].bookFileRelativePath)
     /\ fs'.dirs[i] = NoDir
     /\ run'[r].stats.successBooks = R.stats.successBooks + 1
     /\ run'[r].stats.failedBooks = R.stats.failedBooks
     /\ run'[r].next = Put(R.next, i, NullEntry(R, i))

\* the State Store is written by a run in which nothing failed
C18_Stored(r) ==
  LET R == run[r] IN
  (StepOf(r) /\ R.pc = "stRename" /\ run'[r].stWrites = 1 /\ R.stats.failedBooks = 0)
  => \A i \in BuildSet(R) :
       R.snap[i].bookFileRelativePath = Null
       => /\ i \in DOMAIN fs'.files[StatePath].assets
          /\ fs'.files[StatePath].assets[i] = NullEntry(R, i)

\* C18: null placement. For a record of the build set whose allocated document
\* path is null, a non-dry run removes the document and the side-asset
\* directory its prior entry records and writes no document; when these steps
\* are through, the record is counted in successBooks and its entry has the
\* current fingerprint and null document and side-asset paths, and so has the
\* entry in the State Store the run writes.
C18_NullPlacement ==
  [][\A r \in Runs : C18_NoDocWritten(r) /\ C18_Placed(r) /\ C18_Stored(r)]_vars

\* C18 (witness): a non-dry run has written the State Store after the null
\* placement of a record whose prior entry recorded a document: the document
\* is gone and the stored entry has null paths
C18_Witness ==
  \E r \in Runs :
    /\ ~run[r].dryRun /\ run[r].stWrites = 1 /\ run[r].pc = "finCleanup"
    /\ \E i \in BuildSet(run[r]) :
         /\ run[r].snap[i].bookFileRelativePath = Null
         /\ i \in DOMAIN run[r].prev
         /\ run[r].prev[i].bookFileRelativePath # Null
         /\ ~pathExists(fs.files, run[r].prev[i].bookFileRelativePath)
         /\ i \in DOMAIN StoredAssets
         /\ StoredAssets[i] = NullEntry(run[r], i)

\* C19: State Store round trip. When a run reads the State Store file as
\* writeSyncState has written it (nothing has touched it since), the assets
\* it gets from readSyncState are the assets written: no entry is dropped and
\* no field is lost.
C19_RoundTrip ==
  [][\A r \in Runs :
       (/\ StepOf(r) /\ run[r].pc = "idle" /\ run'[r].pc = "plan"
        /\ fs.files[StatePath].kind = "state"
        /\ env = 0)
       => run'[r].prev = fs.files[StatePath].assets]_vars

\* an entry of the state file passes the structural validation: it is an
\* object, its kind is a known one and its fields have their types
ValidEntry(value) ==
  /\ value # Null
  /\ value.format \in {"EPUB", "PDF"}
  /\ value.bookFileRelativePath # Null

\* the entries of a parsed state file
RawAssets(content) == IF content.kind = "state" THEN content.assets ELSE EmptyMap

C20_Step(r) ==
  LET content == fs.files[StatePath]
      raw == RawAssets(content)
  IN
  (StepOf(r) /\ run[r].pc = "idle")
  => /\ run'[r].pc \in {"plan", "threw"}
     /\ content.kind = "none" => (run'[r].pc = "plan" /\ run'[r].prev = EmptyMap)
     /\ content.kind = "garbage" => run'[r].pc = "threw"
     /\ faults' # faults => run'[r].pc = "threw"
     /\ run'[r].pc = "threw"
        => /\ run'[r].err = "read"
           /\ content.kind = "garbage" \/ faults' # faults
           /\ fs' = fs
     /\ run'[r].pc = "plan"
        => /\ DOMAIN run'[r].prev = {i \in DOMAIN raw : ValidEntry(raw[i])}
           /\ \A i \in DOMAIN run'[r].prev :
                run'[r].prev[i] = [raw[i] EXCEPT !.assetId = i]

\* C20: State Store load tolerance. readSyncState gives the empty store when
\* the state file is missing; it throws when the read fails otherwise and when
\* the file does not parse, and only then; from a file that parses it gives
\* exactly the entries that pass the structural validation, each as the file
\* holds it, and drops the others (no object, unknown kind, a field of the
\* wrong type).
C20_LoadTolerance == [][\A r \in Runs : C20_Step(r)]_vars

\* C20 (witness): a run has read a state file with an entry of an unknown kind
\* beside a valid entry: it has the valid one and not the other
C20_Witness ==
  \E r \in Runs :
    /\ run[r].pc = "plan"
    /\ fs.files[StatePath].kind = "state"
    /\ \E i, j \in DOMAIN fs.files[StatePath].assets :
         /\ fs.files[StatePath].assets[i] # Null
         /\ fs.files[StatePath].assets[i].format = "MOBI"
         /\ i \notin DOMAIN run[r].prev
         /\ j \in DOMAIN run[r].prev
         /\ run[r].prev[j] = fs.files[StatePath].assets[j]

\* the positions of a run inside the try block of one record of the build set
RecordSteps ==
  {"nullDoc", "nullDir", "nullCur", "render", "docTemp", "docRename", "pdfDir",
   "swap1", "swap2", "swap3", "rb1", "rb2", "rb3", "orphDoc", "orphDir"}

\* the records whose build or removal failed in a run
Failed(R) == {R.errors[k] : k \in 1..Len(R.errors)}

\* a call of the build of a record throws: the error stays in the record
C21_Thrown(r) ==
  LET R == run[r] IN
  (StepOf(r) /\ R.pc \in RecordSteps /\ faults' # faults /\ run'[r].pc # "killed")
  => /\ run'[r].pc \in {"rb1", "catch"}
     /\ run'[r].err = ""
     /\ run'[r].idx = R.idx
     /\ run'[r].stats = R.stats
     /\ run'[r].next = R.next

\* the handler of the record: it counts the record, and when its removal of the
\* staging subdirectory returns the loop goes on with the next record
C21_Handled(r) ==
  LET R == run[r]
      i == Cur(R) IN
  (StepOf(r) /\ R.pc = "catch" /\ run'[r].pc # "killed")
  => /\ run'[r].stats = [R.stats EXCEPT !.failedBooks = R.stats.failedBooks + 1]
     /\ run'[r].errors = Append(R.errors, i)
     /\ run'[r].next = R.next
     /\ (R.dryRun \/ faults' = faults)
        => /\ run'[r].pc = "loop"
           /\ run'[r].idx = R.idx + 1
           /\ run'[r].err = ""
           /\ fs'.staged[r][i] = NoDir

\* the State Store is written: every record of the build set was processed, and
\* the records that succeeded have their updated entries
C21_Stored(r) ==
  LET R == run[r] IN
  (StepOf(r) /\ R.pc = "stRename" /\ run'[r].stWrites = 1)
  => /\ R.idx = Len(R.changed) + 1
     /\ R.stats.successBooks + R.stats.failedBooks = Len(R.changed)
     /\ R.stats.failedBooks = Cardinality(Failed(R) \cap BuildSet(R))
     /\ \A i \in BuildSet(R) \ Failed(R) :
          /\ i \in DOMAIN fs'.files[StatePath].assets
          /\ fs'.files[StatePath].assets[i].hash = R.snap[i].hash
          /\ fs'.files[StatePath].assets[i] = R.next[i]

C22_RestoreFails(r) ==
  /\ StepOf(r)
  /\ run[r].pc \in {"rb1", "rb2"}
  /\ faults' # faults
  /\ run'[r].pc # "killed"
  /\ fs'.bak[r][Cur(run[r])] # NoDir

\* C22: unrecoverable swap failure is fatal. When a step of the directory swap
\* has failed and the rollback cannot put the backup back at the target path,
\* the error leaves the build loop (the run goes to its finally block with the
\* error pending, the record is not counted and no later record is built), and
\* a run that has written the State Store has left no backup behind.
C22_SwapFatal ==
  /\ [](\A r \in Runs : run[r].stWrites = 1 => \A i \in Ids : fs.bak[r][i] = NoDir)
  /\ [][\A r \in Runs :
          C22_RestoreFails(r)
          => /\ run'[r].pc = "finCleanup"
             /\ run'[r].err # ""
             /\ run'[r].stats = run[r].stats]_vars

\* removedAssetIds of a run, as a set
RemovedSet(R) == {R.removed[k] : k \in 1..Len(R.removed)}

\* a removal of the artifacts of a record that is gone upstream throws
C23_Thrown(r) ==
  LET R == run[r]
      id == R.removed[R.ridx] IN
  (StepOf(r) /\ R.pc \in {"rmDoc", "rmDir"} /\ faults' # faults /\ run'[r].pc # "killed")
  => /\ run'[r].pc = "removal"
     /\ run'[r].ridx = R.ridx + 1
     /\ run'[r].err = ""
     /\ run'[r].errors = Append(R.errors, id)
     /\ run'[r].next = R.next
     /\ id \in DOMAIN R.next /\ R.next[id] = R.prev[id]

\* the State Store is written after a removal failed
C23_Stored(r) ==
  LET R == run[r]
      written == fs'.files[StatePath] IN
  (StepOf(r) /\ R.pc = "stRename" /\ run'[r].stWrites = 1)
  => /\ R.ridx = Len(R.removed) + 1
     /\ \A id \in RemovedSet(R) \cap Failed(R) :
          /\ id \in DOMAIN written.assets
          /\ written.assets[id] = R.prev[id]
          /\ id \in removedAssetIds(readSyncState(written), TRUE)

\* C23: removal failure keeps the entry. When, in a non-dry full run, a call
\* that deletes the document or the side-asset directory of a record absent
\* upstream throws, the run goes on with the next removal and the entry of the
\* record stays as it was read; the State Store the run writes after the
\* removal loop holds that entry unchanged, and a full run that reads this
\* State Store has the record among its removals again.
C23_RemovalRetry == [][\A r \in Runs : C23_Thrown(r) /\ C23_Stored(r)]_vars

\* C23 (witness): a full run has written the State Store after the removal of
\* a record that is gone upstream failed: the entry it read is still stored
C23_Witness ==
  \E r \in Runs :
    LET R == run[r] IN
    /\ R.full /\ ~R.dryRun /\ R.stWrites = 1
    /\ \E id \in RemovedSet(R) \cap Failed(R) :
         /\ ~books[id].present
         /\ id \in DOMAIN StoredAssets
         /\ StoredAssets[id] = R.prev[id]

\* what of the output root is not the own staging area of run r: the live
\* files (documents, index.md, the State Store, the lock file), the side-asset
\* directories, and the temporary names, backups and staging areas of the
\* other runs
NotOwn(f, r) ==
  [files |-> f.files,
   dirs |-> f.dirs,
   tmp |-> [q \in Runs \ {r} |-> f.tmp[q]],
   bak |-> [q \in Runs \ {r} |-> f.bak[q]],
   staged |-> [q \in Runs \ {r} |-> f.staged[q]],
   stagingRoot |-> [q \in Runs \ {r} |-> f.stagingRoot[q]]]

\* run r was refused the lock
Refused(R) == R.errAt = "acquire" /\ R.err = "lock"

C24_State ==
  \A r \in Runs :
    Refused(run[r])
    => /\ ~run[r].dryRun
       /\ run[r].pc \in {"finCleanup", "threw"}
       /\ run[r].lock = "none"
       /\ run[r].idx = 1 /\ run[r].ridx = 1
       /\ run[r].stats.successBooks = 0 /\ run[r].stats.failedBooks = 0
       /\ run[r].stWrites = 0

C24_Step(r) ==
  (StepOf(r) /\ (Refused(run[r]) \/ Refused(run'[r])))
  => /\ NotOwn(fs', r) = NotOwn(fs, r)
     /\ run'[r].pc \in {"finCleanup", "threw", "killed"}
     /\ run'[r].err # ""

\* C24: lock contention is fatal without side effects. A non-dry run whose
\* acquireSyncLock finds the lock file goes to its finally block with the error
\* pending and ends by throwing: it enters no record of its build set and no
\* removal, it writes no State Store, and none of its steps changes a live
\* document, a side-asset directory, index.md, the State Store file, the lock
\* file or the staging area of another run.
C24_ContentionFatal == []C24_State /\ [][\A r \in Runs : C24_Step(r)]_vars

\* C24 (witness): a run with a record to build has ended with the lock error
\* while the other run holds the lock and has its staging area
C24_Witness ==
  \E r, q \in Runs :
    /\ r # q
    /\ run[r].pc = "threw" /\ Refused(run[r])
    /\ Len(run[r].changed) > 0
    /\ Holds(q) /\ fs.stagingRoot[q]
    /\ fs.files[LockPath] = LockText(q, TRUE)

\* nothing is left of the staging area of run r
NoStaging(r) == ~fs.stagingRoot[r] /\ \A i \in Ids : fs.staged[r][i] = NoDir

\* run r is past the records of its build set that failed, and their staging
\* subdirectories are gone
C25_FailedCleared ==
  \A r \in Runs :
    \A k \in 1..Len(run[r].changed) :
      (k < run[r].idx /\ run[r].changed[k] \in Failed(run[r]))
      => fs.staged[r][run[r].changed[k]] = NoDir

Relocated(R, i) ==
  /\ i \in BuildSet(R) \ Failed(R)
  /\ HasPrevDoc(R, i)
  /\ i \in DOMAIN R.next
  /\ R.next[i].bookFileRelativePath # Null
  /\ R.next[i].bookFileRelativePath # R.prev[i].bookFileRelativePath

\* C26: orphan cleanup on relocation. When a non-dry run in which nothing
\* failed, with no other run at work, writes the State Store after it
\* published a record at a document path that differs from the path of the
\* record's prior entry, the live tree holds the new document of the record at
\* the new path, and the previous path holds no document of that record.
C26_OrphanCleanup ==
  [][\A r \in Runs :
       LET R == run[r] IN
       (/\ StepOf(r) /\ R.pc = "stRename" /\ run'[r].stWrites = 1
        /\ faults = 0
        /\ \A q \in Runs \ {r} : ~Active(q))
       => \A i \in Ids :
            Relocated(R, i)
            => /\ fs.files[R.next[i].bookFileRelativePath] = RenderDoc(i, books[i])
               /\ ~(/\ fs.files[R.prev[i].bookFileRelativePath].kind = "doc"
                     /\ fs.files[R.prev[i].bookFileRelativePath].id = i)]_vars

\* the document at path p is one that a run rendered for record i
PublishedFor(p, i) ==
  /\ fs.files[p].kind = "doc"
  /\ fs.files[p].id = i
  /\ ~fs.files[p].legacy

\* C27: equal fingerprint implies identical output. When the planner skips a
\* record (its kind, fingerprint and path equal the prior entry and the
\* document is on disk), the document a run published for it, which is in the
\* live tree, is the document a rebuild in the current run would render,
\* whatever has changed of the record's other rendered inputs since.
C27_EqualFingerprint ==
  [][\A r \in Runs :
       (StepOf(r) /\ run[r].pc = "plan")
       => \A i \in SkipSet(run'[r]) :
            LET p == run'[r].snap[i].bookFileRelativePath IN
            (SameAsPrior(r, i, run'[r].snap[i]) /\ PublishedFor(p, i))
            => fs.files[p] = RenderDoc(i, books[i])]_vars

\* the calls made that returned a hash
HashCalls ==
  {i \in DOMAIN calls : calls[i].fn \in {"buildBookSyncHash", "buildBookFingerprint"}}

\* records i and j have the same kind, the same latest modification time and,
\* when they are PDFs, the same file stamp
SameHashInputs(i, j) ==
  /\ books[i].format = books[j].format
  /\ books[i].mod = books[j].mod
  /\ books[i].format = "PDF" => books[i].stamp = books[j].stamp

\* C28: fingerprint stability. The hash returned for a record, by
\* buildBookSyncHash and by buildBookFingerprint alike, is determined by the
\* kind of the record, its latest annotation modification time (or none) and,
\* for a PDF, its file stamp: two records that agree on these have the same
\* hash whatever their ids, titles and authors, and for an EPUB whatever the
\* file stamp passed.
C28_FingerprintStability ==
  \A i, j \in HashCalls : SameHashInputs(i, j) => calls[i].result = calls[j].result

\* C28 (witness): two EPUB records with different titles and authors, for
\* which different file stamps were passed, got the same hash
C28_Witness ==
  \E i, j \in HashCalls :
    /\ i # j
    /\ calls[i].fn = "buildBookSyncHash" /\ calls[j].fn = "buildBookSyncHash"
    /\ books[i].format = "EPUB" /\ books[j].format = "EPUB"
    /\ books[i].mod = books[j].mod
    /\ books[i].title # books[j].title /\ books[i].author # books[j].author
    /\ books[i].stamp = MissingStamp /\ books[j].stamp.kind = "file"
    /\ calls[i].result = calls[j].result

\* C29: missing source file triggers rebuild. For PDF records with the same
\* modification time, the hash computed when the probe of the source file
\* gives "missing" differs from the hash computed with a real file stamp; and
\* the planner's test of a PDF record whose source file is missing now, against
\* the entry stored when the file had a real stamp, says that the record is to
\* be regenerated, which puts it in the build set.
C29_MissingSourceRebuild ==
  /\ \A i, j \in HashCalls :
       (/\ books[i].format = "PDF" /\ books[j].format = "PDF"
        /\ books[i].mod = books[j].mod
        /\ books[i].stamp = MissingStamp /\ books[j].stamp.kind = "file")
       => calls[i].result # calls[j].result
  /\ \A i \in DOMAIN calls :
       (/\ calls[i].fn = "shouldRegenerateBook"
        /\ books[i].format = "PDF"
        /\ books[i].stamp = MissingStamp
        /\ calls[i].before.kind = "file")
       => calls[i].result = TRUE

\* C29 (witness): the planner's test was made for a PDF record whose source
\* file is missing and whose entry was stored with the stamp of an empty file
\* of time zero, and it said to regenerate; the test of the same kind of record
\* with the file unchanged said not to
C29_Witness ==
  \E i, j \in DOMAIN calls :
    /\ calls[i].fn = "shouldRegenerateBook" /\ calls[j].fn = "shouldRegenerateBook"
    /\ books[i].format = "PDF" /\ books[j].format = "PDF"
    /\ books[i].stamp = MissingStamp /\ calls[i].before = FileStamp(5, 0)
    /\ calls[i].result = TRUE
    /\ books[j].stamp = FileStamp(5, 0) /\ calls[j].before = FileStamp(5, 0)
    /\ calls[j].result = FALSE

\* the position (from 1) of record i, in the order of the ids, among the
\* records that have output and the title stem of record i
RankInStem(has, i) ==
  Cardinality({j \in DOMAIN books :
                 /\ has[j]
                 /\ toShortBookFileStem(books[j].title) = toShortBookFileStem(books[i].title)
                 /\ j <= i})

\* C30: collision allocation. In the result of
\* buildBookFileRelativePathByAssetId, among the records that have output and
\* share a title stem, the record with the smallest id has the path
\* books/<stem>.md and the k-th record in the order of the ids (k >= 2) has
\* books/<stem>_k.md; a record without output has null.
C30_CollisionAllocation ==
  \A c \in DOMAIN calls :
    LET has == calls[c].has
        result == calls[c].result IN
    /\ DOMAIN result = DOMAIN books
    /\ \A i \in DOMAIN books :
         LET stem == toShortBookFileStem(books[i].title)
             k == RankInStem(has, i) IN
         result[i] = IF ~has[i] THEN Null
                     ELSE IF k = 1 THEN <<"books/">> \o stem \o <<".md">>
                     ELSE <<"books/">> \o stem \o <<"_", ToString(k), ".md">>

\* C30 (witness): three records whose titles give the stem A, all with output,
\* were allocated books/A.md, books/A_2.md and books/A_3.md in the order of
\* their ids
C30_Witness ==
  \E c \in DOMAIN calls :
    /\ \A i \in AllocIds : calls[c].has[i]
    /\ books[1].title # books[2].title
    /\ calls[c].result[1] = <<"books/", "A", ".md">>
    /\ calls[c].result[2] = <<"books/", "A", "_", "2", ".md">>
    /\ calls[c].result[3] = <<"books/", "A", "_", "3", ".md">>

\* C31: allocator determinism. The result of
\* buildBookFileRelativePathByAssetId is the same mapping for every order of
\* the list of the same records with the same flags; it is the mapping the
\* planner's function of the record set gives.
C31_AllocatorDeterminism ==
  \A c \in DOMAIN calls :
    /\ \A o \in Orders :
         buildBookFileRelativePathByAssetIdOfList(ListOf(o), calls[c].flags)
           = calls[c].result
    /\ calls[c].result = buildBookFileRelativePathByAssetId(books, calls[c].has)

\* C31 (witness): three records with the stem A, all with output, were listed
\* in the reverse order of their ids and the smallest id has books/A.md
C31_Witness ==
  \E c \in DOMAIN calls :
    /\ calls[c].order = <<3, 2, 1>>
    /\ \A i \in AllocIds : calls[c].has[i] /\ toShortBookFileStem(books[i].title) = <<"A">>
    /\ calls[c].result[1] = <<"books/", "A", ".md">>
    /\ calls[c].result[3] = <<"books/", "A", "_", "3", ".md">>

\* C32: no-output records take no slot. A record whose flag is false or
\* absent is mapped to null, and every other record has the path it has when
\* the function is called on the list without that record.
C32_NoOutputNoSlot ==
  \A c \in DOMAIN calls :
    LET flags == calls[c].flags
        list == ListOf(calls[c].order)
        result == calls[c].result IN
    \A i \in AllocIds :
      (i \notin DOMAIN flags \/ ~flags[i]) =>
        /\ result[i] = Null
        /\ LET without == buildBookFileRelativePathByAssetIdOfList(
                            SelectSeq(list, LAMBDA b : b.assetId # i), flags)
           IN  \A j \in AllocIds \ {i} : result[j] = without[j]

\* C32 (witness): records 1, 2 and 3 have the stem A, the flag of record 1 is
\* false and the flag of record 2 is absent; record 3 has books/A.md
C32_Witness ==
  \E c \in DOMAIN calls :
    /\ \A i \in AllocIds : toShortBookFileStem(books[i].title) = <<"A">>
    /\ 1 \in DOMAIN calls[c].flags /\ ~calls[c].flags[1]
    /\ 2 \notin DOMAIN calls[c].flags
    /\ calls[c].result[1] = Null /\ calls[c].result[2] = Null
    /\ calls[c].result[3] = <<"books/", "A", ".md">>

\* C35: allocator injectivity. The result of
\* buildBookFileRelativePathByAssetId never holds the same non-null path for
\* two different ids, also when the stem of one title is the stem of another
\* followed by a numeric suffix.
C35_AllocatorInjectivity ==
  \A c \in DOMAIN calls :
    \A i, j \in AllocIds :
      (i # j /\ calls[c].result[i] # Null) => calls[c].result[i] # calls[c].result[j]

\* C33: published-state consistency. When a non-dry full run in which no call
\* failed, with no other run at work, returns with failedBooks = 0 after it
\* wrote the State Store, every entry it wrote with a non-null document path
\* has, at that path of the live tree, a document rendered for the record of
\* the entry.
C33_PublishedState ==
  [][\A r \in Runs :
       LET R == run'[r] IN
       (/\ StepOf(r) /\ R.pc = "done" /\ run[r].pc # "done"
        /\ ~R.dryRun /\ R.full /\ R.stWrites = 1
        /\ R.stats.failedBooks = 0
        /\ faults' = 0
        /\ \A q \in Runs \ {r} : ~Active(q))
       => \A i \in DOMAIN R.next :
            R.next[i].bookFileRelativePath # Null
            => /\ fs'.files[R.next[i].bookFileRelativePath].kind = "doc"
               /\ fs'.files[R.next[i].bookFileRelativePath].id = i]_vars

\* C34: cleanup never hits another record's placement. While no call has
\* failed, a step of a run that
\* deletes the previous document of a record, as orphan cleanup after the
\* record was published elsewhere or as removal of a record that is gone
\* upstream, changes no document path that the run has allocated to a
\* different record and that holds the document of that record. (The
\* side-asset directories are keyed by the id, so two records never share one.)
C34_CleanupSparesOthers ==
  [][\A r \in Runs :
       LET R == run[r]
           own == IF R.pc = "orphDoc" THEN Cur(R) ELSE R.removed[R.ridx] IN
       (StepOf(r) /\ R.pc \in {"orphDoc", "rmDoc"} /\ faults' = 0)
       => \A p \in DocPaths :
            fs'.files[p] # fs.files[p]
            => \A j \in DOMAIN R.snap \ {own} :
                 ~(/\ R.snap[j].bookFileRelativePath = p
                   /\ fs.files[p].kind = "doc"
                   /\ fs.files[p].id = j)]_vars

\* C36: failed record keeps its prior state. When a non-dry run writes the
\* State Store after the build or the publish of a record of its build set
\* failed, the entry it writes for that record has the fingerprint, the
\* document path, the side-asset path and the title of the entry it read for
\* the record, and there is no entry when it read none.
C36_FailedKeepsState ==
  [][\A r \in Runs :
       LET R == run[r]
           written == fs'.files[StatePath].assets IN
       (StepOf(r) /\ R.pc = "stRename" /\ run'[r].stWrites = 1)
       => \A i \in Failed(R) \cap BuildSet(R) :
            IF i \in DOMAIN R.prev
            THEN /\ i \in DOMAIN written
                 /\ written[i].hash = R.prev[i].hash
                 /\ written[i].bookFileRelativePath = R.prev[i].bookFileRelativePath
                 /\ written[i].pdfAssetDirRelativePath = R.prev[i].pdfAssetDirRelativePath
                 /\ written[i].title = R.prev[i].title
            ELSE i \notin DOMAIN written]_vars

\* the positions of a run in the publish of a record: the document write, the
\* swap of the side-asset directory and the cleanup of the previous placement
C37_PublishSteps ==
  {"docTemp", "docRename", "pdfDir", "swap1", "swap2", "swap3", "orphDoc", "orphDir"}

\* C37: failed record keeps its prior output. When the publish of a record
\* that has a prior document has failed, with no second failure in the
\* handlers, the path of the prior document holds what it held when the
\* publish began, and after a failed swap the side-asset directory is the one
\* that was there when the swap began.
C37_FailedKeepsOutput ==
  \A r \in Runs :
    LET R == run[r]
        i == Cur(R) IN
    (/\ R.pc = "catch" /\ R.errAt \in C37_PublishSteps
     /\ faults <= MaxFaults
     /\ HasPrevDoc(R, i))
    => /\ fs.files[R.prev[i].bookFileRelativePath] = R.preDoc
       /\ R.errAt \in {"swap1", "swap2", "swap3"} => fs.dirs[i] = R.preDir

\* C38: failed acquire leaves no lock. When acquireSyncLock has thrown for
\* another reason than the lock file being there (the exclusive create threw,
\* or the write of the pid and the time threw after the create), and the run
\* has ended, the output root holds no lock file created by that call.
C38_FailedAcquireNoLock ==
  \A r \in Runs :
    (/\ run[r].pc = "threw"
     /\ run[r].errAt \in {"acquire", "lockWrite"}
     /\ run[r].err \in {"open", "lockWrite"})
    => ~(fs.files[LockPath].kind = "lock" /\ fs.files[LockPath].pid = r)

\* C39: the run counters partition the record set. When a run has returned,
\* dry or not, full or filtered, with or without failed records, totalBooks =
\* successBooks + failedBooks + skippedBooks; totalBooks is the number of the
\* records the filter selected.
C39_CountersPartition ==
  \A r \in Runs :
    Returned(r)
    => /\ run[r].stats.totalBooks
            = run[r].stats.successBooks + run[r].stats.failedBooks
              + run[r].stats.skippedBooks
       /\ run[r].stats.totalBooks = Cardinality(DOMAIN run[r].snap)
       /\ run[r].stats.successBooks + run[r].stats.failedBooks = Len(run[r].changed)

\* C39 (witness): a run of two records has returned after it skipped one and
\* failed on the other
C39_Witness ==
  \E r \in Runs :
    /\ Returned(r)
    /\ run[r].stats.totalBooks = 2
    /\ run[r].stats.skippedBooks = 1
    /\ run[r].stats.failedBooks = 1
    /\ run[r].stats.successBooks = 0

====
